---- MODULE Spec2Model ----
(***************************************************************************)
(* JoinSwap: the maker (src/src/maker_protocol.rs), the user               *)
(* (src/src/user_protocol.rs) and the shared library (src/src/lib.rs).     *)
(*                                                                         *)
(* Data conventions                                                        *)
(*  - a private key is a natural number k, its public key is PubOf(k);     *)
(*  - a script_pubkey, a txid and a descriptor's script are sequences of   *)
(*    integers (an injective encoding stands for the hash / compilation);  *)
(*  - Option<T> is a sequence of length 0 (None) or 1 (Some);              *)
(*  - a u64 is an integer; a value 2^64 - d produced by a wrapping         *)
(*    subtraction is written -d (two's complement reading).                *)
(***************************************************************************)
EXTENDS Integers, Sequences, FiniteSets, TLC

(***************************************************************************)
(* Program constants                                                       *)
(***************************************************************************)
\* user_protocol.rs:286  assert!(funding_fee < 420)
FEE_CEILING == 420
\* lib.rs:169  let refund_fee = 1000
refund_fee == 1000
\* lib.rs:52 older(48), user_protocol.rs:319 Sequence::from_height(48)
USERS2MAKER_OLDER == 48
\* lib.rs:43 older(69)
MAKER2USERS_OLDER == 69
\* maker_protocol.rs:245  add_recipient(.., 45000)
SECOND_AMOUNT == 45000
\* user_protocol.rs:34 / maker_protocol.rs:138  get_funded_wallet: one 50_000 sat utxo
FUNDED_VALUE == 50000

(***************************************************************************)
(* Bounds of the model                                                     *)
(***************************************************************************)
\* funding fees 0..MaxLowFee are explored next to the fees around FEE_CEILING
MaxLowFee == 2
\* number of changes applied to a funding/refund pair before it is validated
MaxTamper == 2

(***************************************************************************)
(* Generic helpers                                                         *)
(***************************************************************************)
RECURSIVE SumSeq(_)
SumSeq(s) == IF s = <<>> THEN 0 ELSE Head(s) + SumSeq(Tail(s))

RECURSIVE Flatten(_)
Flatten(ss) == IF ss = <<>> THEN <<>> ELSE Head(ss) \o Flatten(Tail(ss))

Min(a, b) == IF a < b THEN a ELSE b

Count(s, P(_)) == Cardinality({i \in DOMAIN s : P(s[i])})

None == <<>>
Some(x) == <<x>>

\* u64 comparison on the two's complement reading (negative = 2^64 - d)
ULt(a, b) == IF (a < 0) = (b < 0) THEN a < b ELSE b < 0

(***************************************************************************)
(* Keys, hashes, scripts, transactions                                     *)
(***************************************************************************)
\* PrivateKey::public_key (lib.rs:26)
PubOf(k) == 100 + k

\* sha256::Hash::hash (maker_protocol.rs:257, user_protocol.rs:142)
Sha256(p) == 1000 + p

\* Address::script_pubkey
AddrScript(a) == <<2, a>>

\* the wpkh script of a funded wallet (get_funded_wallet(get_descriptors()))
WpkhScript(w) == <<1, w>>
\* the script of another kind of descriptor over a key of wallet w, which a
\* peer may submit in place of a wpkh one
WshPkScript(w) == <<4, w>>
\* Descriptor::max_satisfaction_weight (maker_protocol.rs:349): a function of
\* the kind of descriptor
max_satisfaction_weight(spk) == IF spk[1] = 1 THEN 112 ELSE 116

OutPoint(txid, vout) == [txid |-> txid, vout |-> vout]
TxOut(spk, v) == [script_pubkey |-> spk, value |-> v]
TxIn(prev, seq) == [previous_output |-> prev, sequence |-> seq]

SerTxIn(i) ==
    <<Len(i.previous_output.txid)>> \o i.previous_output.txid
        \o <<i.previous_output.vout, i.sequence>>
SerTxOut(o) == <<Len(o.script_pubkey)>> \o o.script_pubkey \o <<o.value>>

\* Transaction::txid: the hash of the unsigned serialisation
Txid(tx) ==
    <<tx.version, Len(tx.input)>>
        \o Flatten([i \in DOMAIN tx.input |-> SerTxIn(tx.input[i])])
        \o <<Len(tx.output)>>
        \o Flatten([i \in DOMAIN tx.output |-> SerTxOut(tx.output[i])])

(***************************************************************************)
(* Contract descriptors (lib.rs:35-55)                                     *)
(***************************************************************************)
\* wsh(thresh(1, multi(2,m0,m1), and_v(v:pk(t),older(69)), and_v(v:pk(h),sha256(hash))))
maker2users_contract_desc(multisig_keys, timelock_key, hashlock_key, hash) ==
    [multi |-> <<multisig_keys[1], multisig_keys[2]>>,
     timelock |-> <<timelock_key>>, older |-> MAKER2USERS_OLDER,
     hashlock |-> <<hashlock_key>>, hash |-> hash]

\* wsh(thresh(1, multi(3,k0,k1,k2), and_v(v:multi(3,k3,k4,k5),older(48)),
\*               and_v(v:multi(3,k6,k7,k8),sha256(hash))))
users2maker_contract_desc(keys, hash) ==
    [multi |-> <<keys[1], keys[2], keys[3]>>,
     timelock |-> <<keys[4], keys[5], keys[6]>>, older |-> USERS2MAKER_OLDER,
     hashlock |-> <<keys[7], keys[8], keys[9]>>, hash |-> hash]

\* Descriptor::script_pubkey: the script the policy compiles to
ScriptPubkey(desc) ==
    <<3, desc.older, Len(desc.multi)>> \o desc.multi \o desc.timelock
        \o desc.hashlock \o <<desc.hash>>

DescKeys(desc) == desc.multi \o desc.timelock \o desc.hashlock

\* Descriptor::sanity_check (lib.rs:115): of miniscript's checks the fixed policy
\* shape leaves one that the keys decide, "no repeated public keys"
sanity_check(desc) ==
    Cardinality({DescKeys(desc)[i] : i \in DOMAIN DescKeys(desc)}) = Len(DescKeys(desc))

\* a check that is content with one handed-over key matching
check_prv_keys_any(prv_keys, match_against) ==
    \E i \in DOMAIN prv_keys :
        Count(match_against, LAMBDA actual_key : actual_key = PubOf(prv_keys[i])) = 1

(***************************************************************************)
(* Key checks                                                              *)
(***************************************************************************)
\* lib.rs:22-31: every derived public key occurs exactly once in match_against
check_prv_keys(prv_keys, match_against) ==
    \A i \in DOMAIN prv_keys :
        Count(match_against, LAMBDA actual_key : actual_key = PubOf(prv_keys[i])) = 1

\* the check of the user's own keys without the check for duplicates
check_contract_keys_own_only(keys, my_key1, my_key2, my_key3) ==
    /\ Count(SubSeq(keys, 1, 3), LAMBDA key : key = my_key1) = 1
    /\ Count(SubSeq(keys, 4, 6), LAMBDA key : key = my_key2) = 1
    /\ Count(SubSeq(keys, 7, 9), LAMBDA key : key = my_key3) = 1

\* user_protocol.rs:249-260
check_contract_keys(keys, my_key1, my_key2, my_key3) ==
    /\ Len(keys) = Cardinality({keys[i] : i \in DOMAIN keys})
    /\ Count(SubSeq(keys, 1, 3), LAMBDA key : key = my_key1) = 1
    /\ Count(SubSeq(keys, 4, 6), LAMBDA key : key = my_key2) = 1
    /\ Count(SubSeq(keys, 7, 9), LAMBDA key : key = my_key3) = 1

(***************************************************************************)
(* PSBTs                                                                   *)
(*  unsigned_tx: [version, input: Seq(TxIn), output: Seq(TxOut)]           *)
(*  inputs:  Seq([witness_utxo: Option<TxOut>,                             *)
(*                non_witness_utxo: Option<the previous tx's outputs>,     *)
(*                partial_sigs: set of public keys])                       *)
(*  outputs: the number of per-output maps (serde fills the three fields   *)
(*           independently, so it need not equal Len(unsigned_tx.output))  *)
(***************************************************************************)
PsbtInput(w, nw, sigs) == [witness_utxo |-> w, non_witness_utxo |-> nw, partial_sigs |-> sigs]
Transaction(v, ins, outs) == [version |-> v, input |-> ins, output |-> outs]
Psbt(tx, ins, nouts) == [unsigned_tx |-> tx, inputs |-> ins, outputs |-> nouts]

\* PsbtUtils::get_utxo_for: the witness_utxo if present, else the output of the
\* non_witness_utxo that previous_output.vout names; None if neither is there
HasUtxoFor(psbt, i) ==
    /\ i <= Len(psbt.inputs)
    /\ \/ psbt.inputs[i].witness_utxo # None
       \/ /\ psbt.inputs[i].non_witness_utxo # None
          /\ psbt.unsigned_tx.input[i].previous_output.vout + 1
                 <= Len(psbt.inputs[i].non_witness_utxo[1])
get_utxo_for(psbt, i) ==
    IF psbt.inputs[i].witness_utxo # None
    THEN psbt.inputs[i].witness_utxo[1]
    ELSE psbt.inputs[i].non_witness_utxo[1][psbt.unsigned_tx.input[i].previous_output.vout + 1]

InputAmount(psbt) ==
    SumSeq([i \in DOMAIN psbt.unsigned_tx.input |-> get_utxo_for(psbt, i).value])
OutputAmount(psbt) ==
    SumSeq([i \in DOMAIN psbt.unsigned_tx.output |-> psbt.unsigned_tx.output[i].value])

\* psbt.fee_amount().unwrap() returns (lib.rs:168, user_protocol.rs:285,329):
\* every input has a utxo and input_amount.checked_sub(output_amount) is Some
FeeAmountOk(psbt) ==
    /\ \A i \in DOMAIN psbt.unsigned_tx.input : HasUtxoFor(psbt, i)
    /\ ~ULt(InputAmount(psbt), OutputAmount(psbt))
fee_amount(psbt) == InputAmount(psbt) - OutputAmount(psbt)

\* wallet.sign: every key of the signing wallet adds its signature to the
\* inputs in `which` (lib.rs:101)
Sign(psbt, pubs, which) ==
    [psbt EXCEPT !.inputs =
        [i \in DOMAIN psbt.inputs |->
            IF i \in which
            THEN [psbt.inputs[i] EXCEPT !.partial_sigs = @ \cup pubs]
            ELSE psbt.inputs[i]]]

\* a combination that keeps the first copy only
CombineFirstOnly(a, b) == a

\* Psbt::combine (maker_protocol.rs:320): the signatures of both copies
CombineOk(a, b) == a.unsigned_tx = b.unsigned_tx
Combine(a, b) ==
    [a EXCEPT !.inputs =
        [i \in DOMAIN a.inputs |->
            IF i <= Len(b.inputs)
            THEN [a.inputs[i] EXCEPT !.partial_sigs = @ \cup b.inputs[i].partial_sigs]
            ELSE a.inputs[i]]]

AllSigs(psbt) == UNION {psbt.inputs[i].partial_sigs : i \in DOMAIN psbt.inputs}

(***************************************************************************)
(* check_psbts (user_protocol.rs:274-332).  Each CheckN is TRUE when the   *)
(* assertions of step N pass and nothing in it panics (an index out of     *)
(* range, an unwrap of None, a division by zero, and, in a build with      *)
(* overflow checks, a subtraction below zero).                             *)
(***************************************************************************)
\* 1) user_protocol.rs:282
Check1(funding, desc) ==
    /\ Len(funding.unsigned_tx.output) >= 1
    /\ funding.unsigned_tx.output[1].script_pubkey = ScriptPubkey(desc)

Check2Inclusive(funding) ==
    /\ FeeAmountOk(funding)
    /\ ~ULt(FEE_CEILING, fee_amount(funding))
\* 2) user_protocol.rs:285-286
Check2(funding) ==
    /\ FeeAmountOk(funding)
    /\ ULt(fee_amount(funding), FEE_CEILING)

\* 3) user_protocol.rs:289-297
Check3(funding, my_utxo) ==
    Count(funding.unsigned_tx.input,
          LAMBDA txin : txin.previous_output = my_utxo.outpoint) = 1

\* user_protocol.rs:300-306: funding.inputs zipped with the prevouts
InputValuesOk(funding) ==
    \A i \in 1..Min(Len(funding.inputs), Len(funding.unsigned_tx.input)) :
        /\ funding.inputs[i].non_witness_utxo # None
        /\ funding.unsigned_tx.input[i].previous_output.vout + 1
               <= Len(funding.inputs[i].non_witness_utxo[1])
input_values(funding) ==
    [i \in 1..Min(Len(funding.inputs), Len(funding.unsigned_tx.input)) |->
        funding.inputs[i].non_witness_utxo[1]
            [funding.unsigned_tx.input[i].previous_output.vout + 1].value]

\* 4) user_protocol.rs:309-310
Check4(funding, overflow_checks) ==
    /\ InputValuesOk(funding)
    /\ ~(overflow_checks /\ ULt(SumSeq(input_values(funding)), fee_amount(funding)))
    /\ SumSeq(input_values(funding)) - fee_amount(funding)
           = funding.unsigned_tx.output[1].value

\* 5) user_protocol.rs:313-315
Check5(funding, refund) ==
    /\ Len(refund.inputs) = 1
    /\ Len(refund.unsigned_tx.input) >= 1
    /\ refund.unsigned_tx.input[1].previous_output
           = OutPoint(Txid(funding.unsigned_tx), 0)

\* check 6 without the comparison of the sequence
Check6VersionOnly(refund) == refund.unsigned_tx.version = 2

\* 6) user_protocol.rs:318-319
Check6(refund) ==
    /\ refund.unsigned_tx.version = 2
    /\ refund.unsigned_tx.input[1].sequence = USERS2MAKER_OLDER

\* 7) user_protocol.rs:322-325
my_txout(refund, refund_addr) ==
    LET idx == {i \in DOMAIN refund.unsigned_tx.output :
                   refund.unsigned_tx.output[i].script_pubkey = AddrScript(refund_addr)}
    IN  [n \in 1..Cardinality(idx) |->
            refund.unsigned_tx.output[
                CHOOSE i \in idx : Cardinality({j \in idx : j < i}) = n - 1]]
Check7(refund, refund_addr) == Len(my_txout(refund, refund_addr)) = 1

\* user_protocol.rs:328,330
users(refund) == refund.outputs
refund_amount(funding, refund, my_utxo) ==
    my_utxo.txout.value - (fee_amount(funding) + 1000) \div users(refund)

\* 8) user_protocol.rs:328-331
Check8(funding, refund, my_utxo, refund_addr, overflow_checks) ==
    /\ FeeAmountOk(refund)
    /\ fee_amount(refund) = 1000
    /\ users(refund) # 0
    /\ ~(overflow_checks
           /\ ULt(my_utxo.txout.value, (fee_amount(funding) + 1000) \div users(refund)))
    /\ my_txout(refund, refund_addr)[1].value = refund_amount(funding, refund, my_utxo)

check_psbts(funding, refund, desc, my_utxo, refund_addr, overflow_checks) ==
    /\ Check1(funding, desc)
    /\ Check2(funding)
    /\ Check3(funding, my_utxo)
    /\ Check4(funding, overflow_checks)
    /\ Check5(funding, refund)
    /\ Check6(refund)
    /\ Check7(refund, refund_addr)
    /\ Check8(funding, refund, my_utxo, refund_addr, overflow_checks)

(***************************************************************************)
(* Building the funding and the refund transaction (lib.rs:109-228).       *)
(* A WeightedUtxo is [outpoint, psbt_input]; a builder returns             *)
(* [ok, ...]: ok is FALSE when an assert or an unwrap in it panics.        *)
(***************************************************************************)
WeightedUtxo(outpoint, psbt_input) == [outpoint |-> outpoint, psbt_input |-> psbt_input]

\* Utxo::txout (lib.rs:119, and the value the transaction builder spends)
UtxoTxoutOk(u) ==
    IF u.psbt_input.non_witness_utxo # None
    THEN u.outpoint.vout + 1 <= Len(u.psbt_input.non_witness_utxo[1])
    ELSE u.psbt_input.witness_utxo # None
UtxoTxout(u) ==
    IF u.psbt_input.non_witness_utxo # None
    THEN u.psbt_input.non_witness_utxo[1][u.outpoint.vout + 1]
    ELSE u.psbt_input.witness_utxo[1]

\* lib.rs:198-228: spend exactly `utxos`, drain to the wallet's address.  `fee`
\* is the fee the transaction builder settles on (its fee rate times the weight).
\* Inputs carry the builder's default nSequence 0xFFFFFFFE, written -2.
build_funding_tx(receive_spk, utxos, fee) ==
    LET okin  == \A i \in DOMAIN utxos : UtxoTxoutOk(utxos[i])
        total == SumSeq([i \in DOMAIN utxos |-> UtxoTxout(utxos[i]).value])
    IN  IF ~okin \/ total < fee \/ utxos = <<>>
        THEN [ok |-> FALSE]
        ELSE [ok |-> TRUE,
              psbt |-> Psbt(
                Transaction(1, [i \in DOMAIN utxos |-> TxIn(utxos[i].outpoint, -2)],
                            <<TxOut(receive_spk, total - fee)>>),
                [i \in DOMAIN utxos |-> utxos[i].psbt_input],
                1)]

final_value_undivided(initial_value, funding_fee, out_count) ==
    initial_value - (funding_fee \div out_count) - refund_fee
\* lib.rs:173-174
final_value(initial_value, funding_fee, out_count) ==
    initial_value - (funding_fee \div out_count) - (refund_fee \div out_count)

\* lib.rs:160-196.  `wallet_utxo` is the one utxo of the wallet (the funding
\* output, lib.rs:136-143).  tx_builder.finish() fails when the recipients and the
\* absolute fee need more than that utxo holds (also when a final_value went below
\* zero: a panic with overflow checks, a value near 2^64 without); what is left
\* over goes to a change output of the wallet.  The timelock path gives version 2
\* and nSequence 48.
build_refund_tx(wallet_utxo, recipients, funding_psbt) ==
    IF \/ Len(recipients) # Len(funding_psbt.unsigned_tx.input)
       \/ recipients = <<>>
       \/ ~FeeAmountOk(funding_psbt)
    THEN [ok |-> FALSE]
    ELSE
    LET out_count   == Len(recipients)
        funding_fee == fee_amount(funding_psbt)
        outputs == [i \in DOMAIN recipients |->
                       TxOut(AddrScript(recipients[i][1]),
                             final_value(recipients[i][2], funding_fee, out_count))]
        needed  == SumSeq([i \in DOMAIN outputs |-> outputs[i].value]) + refund_fee
        change  == wallet_utxo.value - needed
        outs    == IF change > 0
                   THEN outputs \o <<TxOut(wallet_utxo.script_pubkey, change)>>
                   ELSE outputs
        outpoint == OutPoint(Txid(funding_psbt.unsigned_tx), 0)
    IN  [ok |-> /\ \A i \in DOMAIN outputs : outputs[i].value >= 0
                /\ change >= 0,
         psbt |-> Psbt(Transaction(2, <<TxIn(outpoint, USERS2MAKER_OLDER)>>, outs),
                       <<PsbtInput(Some(wallet_utxo), None, {})>>,
                       Len(outs))]

\* lib.rs:109-158
build_funding_and_refund(pub_desc, from_utxos, refund_to, fee) ==
    IF \/ Len(from_utxos) # Len(refund_to)
       \/ ~sanity_check(pub_desc)
       \/ \E i \in DOMAIN from_utxos : ~UtxoTxoutOk(from_utxos[i])
    THEN [ok |-> FALSE]
    ELSE
    LET refund_recipients ==
            [i \in DOMAIN refund_to |-> <<refund_to[i], UtxoTxout(from_utxos[i]).value>>]
        funding == build_funding_tx(ScriptPubkey(pub_desc), from_utxos, fee)
    IN  IF ~funding.ok THEN [ok |-> FALSE]
        ELSE
        LET refund == build_refund_tx(funding.psbt.unsigned_tx.output[1],
                                      refund_recipients, funding.psbt)
        IN  IF ~refund.ok THEN [ok |-> FALSE, funding |-> funding.psbt, refund |-> refund.psbt]
            ELSE [ok |-> TRUE,
                  funding |-> funding.psbt,
                  refund |-> [refund.psbt EXCEPT !.inputs[1].witness_utxo =
                                 Some(funding.psbt.unsigned_tx.output[1])]]

(***************************************************************************)
(* The participants' own data                                              *)
(***************************************************************************)
\* gen_key_pair (lib.rs:230-240): the i-th key pair a process generates.  Users are
\* 1 and 2 (keys 1..3 for the first contract, 4..5 for the second), the maker's
\* seven key pairs are MakerPrv(1..7); fresh random keys never collide.
UserPrv(u, i) == 10 * u + i
MakerPrv(i) == 30 + i

\* user_protocol.rs:222-246: the one utxo of the user's funded wallet, as the
\* LocalUtxo it keeps and as the psbt::Input it sends
UserUtxo(u, v) == [outpoint |-> OutPoint(<<500 + u>>, 0), txout |-> TxOut(WpkhScript(u), v)]
UserPsbtIn(u, v) ==
    PsbtInput(Some(TxOut(WpkhScript(u), v)), Some(<<TxOut(WpkhScript(u), v)>>), {})
\* user_protocol.rs:204: wallet.get_address(AddressIndex::New)
UserRefundAddr(u) == u

\* the nine keys grouped by owner instead of by path
ContractKeysByOwner(a1, a2, a3, b1, b2, b3, m1, m2, m3) ==
    <<a1, a2, a3, b1, b2, b3, m1, m2, m3>>

\* maker_protocol.rs:42: the nine keys, three per path
ContractKeys(a1, a2, a3, b1, b2, b3, m1, m2, m3) == <<a1, b1, m1, a2, b2, m2, a3, b3, m3>>

(***************************************************************************)
(* Lines on a connection.  send_message writes one line, read_message      *)
(* reads one (lib.rs:70-80); a line is [t, ...] where t is the shape the   *)
(* reader's parser accepts.  A read at end of stream returns the empty     *)
(* line EOF, which no parser accepts.                                      *)
(***************************************************************************)
KeysMsg(ks) == [t |-> "keys", keys |-> ks]
DescMsg(spk) == [t |-> "desc", spk |-> spk]
OutPointMsg(o) == [t |-> "outpoint", outpoint |-> o]
PsbtInMsg(i) == [t |-> "psbt_in", input |-> i]
AddrMsg(a) == [t |-> "addr", addr |-> a]
HashMsg(h) == [t |-> "hash", hash |-> h]
PsbtMsg(p) == [t |-> "psbt", psbt |-> p]
TxidMsg(x) == [t |-> "txid", txid |-> x]
PrvMsg(k) == [t |-> "prv", key |-> k]
PreimageMsg(p) == [t |-> "preimage", preimage |-> p]
EOF == [t |-> "eof"]

\* read_contract_keys (lib.rs:57-68) returns: n keys separated by commas
ParsesKeys(line, n) == line.t = "keys" /\ Len(line.keys) = n
\* read_psbt without the comparison of the txid
ParsesPsbtAnyTxid(line, txid) == line.t = "psbt"

\* read_psbt (lib.rs:82-93) returns: a PSBT, with the expected txid if one is given
ParsesPsbt(line, txid) ==
    /\ line.t = "psbt"
    /\ txid # None => Txid(line.psbt.unsigned_tx) = txid[1]

\* what a process did on a connection, in order
Sent(c, what, m) == [op |-> "send", conn |-> c, what |-> what, m |-> m]
Received(c, what) == [op |-> "recv", conn |-> c, what |-> what]
SendsTo(events, c) ==
    LET s == SelectSeq(events, LAMBDA e : e.op = "send" /\ e.conn = c)
    IN  [i \in DOMAIN s |-> s[i].m]

NoPsbt == Psbt(Transaction(0, <<>>, <<>>), <<>>, 0)

\* the key that signs for the funded wallet of u (lib.rs:242-273)
WalletPub(u) == 200 + u

\* the local variables of user_protocol.rs main
UserLocals(pc) ==
    [pc |-> pc, conn |-> <<0, 0>>, keys |-> <<>>, hash |-> 0,
     funding_psbt |-> NoPsbt, refund_psbt |-> NoPsbt,
     refund_final |-> NoPsbt, funding_final |-> NoPsbt,
     maker_keys |-> <<>>, txid |-> <<>>, preimage |-> 0, maker_prv_key |-> 0,
     log |-> <<>>]

\* the local variables of maker_protocol.rs main
MakerLocals(pc) ==
    [pc |-> pc, idx |-> 1, conn |-> <<>>,
     user_keys |-> <<>>, desc |-> <<>>, outpoint |-> <<>>, weighted |-> <<>>,
     addr |-> <<>>, keys |-> <<>>, preimage |-> 0, hash |-> 0,
     funding_psbt |-> NoPsbt, refund_psbt |-> NoPsbt, signed_psbts |-> <<>>,
     refund_final |-> NoPsbt, funding_final |-> NoPsbt,
     second_keys |-> <<>>, total_spent |-> 0, maker2users_txs |-> <<>>,
     hashlock_prv_keys |-> <<>>, prv_keys |-> <<>>, profit |-> 0,
     log |-> <<>>]

VARIABLES
    cp,      \* the funding/refund pair under validation and check_psbts' verdict
    maker,   \* the maker process: its position and local variables
    user,    \* the user processes 1 and 2: position and local variables
    owner,   \* owner[c]: who opened connection c (a user, or 0 for anyone else)
    c2m,     \* c2m[c]: the lines sent to the maker on c and not yet read
    m2c,     \* m2c[c]: the lines sent by the maker on c and not yet read
    backlog  \* connections the listener has not accepted yet

pvars == <<maker, user, owner, c2m, m2c, backlog>>
\* no process runs
Idle ==
    /\ maker = MakerLocals("off")
    /\ user = [u \in {1, 2} |-> UserLocals("absent")]
    /\ owner = <<>> /\ c2m = <<>> /\ m2c = <<>> /\ backlog = <<>>

(***************************************************************************)
(* Validation of funding/refund pairs: the pair the maker builds for two   *)
(* users, changed in up to MaxTamper places, handed to check_psbts as      *)
(* user 1 receives it.                                                     *)
(***************************************************************************)
CollateralValues == {FUNDED_VALUE, 2000}
FundingFees == (0..MaxLowFee) \cup ((FEE_CEILING - 2)..(FEE_CEILING + 1))

PsbtKeys ==
    ContractKeys(PubOf(UserPrv(1, 1)), PubOf(UserPrv(1, 2)), PubOf(UserPrv(1, 3)),
                 PubOf(UserPrv(2, 1)), PubOf(UserPrv(2, 2)), PubOf(UserPrv(2, 3)),
                 PubOf(MakerPrv(1)), PubOf(MakerPrv(2)), PubOf(MakerPrv(3)))
PsbtDesc == users2maker_contract_desc(PsbtKeys, Sha256(7))

InitPsbt ==
    \E va \in CollateralValues, vb \in CollateralValues, fee \in FundingFees,
       oc \in BOOLEAN :
        LET built == build_funding_and_refund(
                        PsbtDesc,
                        <<WeightedUtxo(UserUtxo(1, va).outpoint, UserPsbtIn(1, va)),
                          WeightedUtxo(UserUtxo(2, vb).outpoint, UserPsbtIn(2, vb))>>,
                        <<UserRefundAddr(1), UserRefundAddr(2)>>,
                        fee)
        IN  /\ cp = [va |-> va, vb |-> vb, overflow_checks |-> oc,
                     built |-> built.ok, funding |-> built.funding,
                     refund |-> built.refund, tampers |-> 0, verdict |-> "none"]
            /\ Idle

Relink(refund, funding) ==
    [refund EXCEPT !.unsigned_tx.input[1].previous_output =
                       OutPoint(Txid(funding.unsigned_tx), 0)]

CanTamper == cp.verdict = "none" /\ cp.tampers < MaxTamper
Tampered(f, r) ==
    /\ cp' = [cp EXCEPT !.funding = f, !.refund = Relink(r, f), !.tampers = @ + 1]
    /\ UNCHANGED pvars

\* one more collateral input of value v, its value added to the contract output
TamperFundingAddInput ==
    /\ CanTamper
    /\ \E v \in {0, 1000} :
        Tampered([cp.funding EXCEPT
                    !.unsigned_tx.input = Append(@, TxIn(OutPoint(<<509>>, 0), -2)),
                    !.inputs = Append(@, UserPsbtIn(9, v)),
                    !.unsigned_tx.output[1].value = @ + v],
                 cp.refund)

\* the contract output gets d more (the fee d less)
TamperFundingOutputValue ==
    /\ CanTamper
    /\ \E d \in {-1, 1} :
        /\ cp.funding.unsigned_tx.output[1].value + d >= 0
        /\ Tampered([cp.funding EXCEPT !.unsigned_tx.output[1].value = @ + d], cp.refund)

\* a second funding output of value v
TamperFundingAddOutput ==
    /\ CanTamper
    /\ \E v \in {0, 1} :
        Tampered([cp.funding EXCEPT
                    !.unsigned_tx.output = Append(@, TxOut(WpkhScript(9), v))],
                 cp.refund)

\* the witness_utxo of the second input states another value than its previous tx
TamperFundingWitness ==
    /\ CanTamper
    /\ \E d \in {-1, 1} :
        Tampered([cp.funding EXCEPT !.inputs[2].witness_utxo[1].value = @ + d], cp.refund)

\* the contract output pays another script
TamperFundingScript ==
    /\ CanTamper
    /\ Tampered([cp.funding EXCEPT !.unsigned_tx.output[1].script_pubkey = WpkhScript(9)],
                cp.refund)

\* the user's own utxo is spent twice, or replaced by another one
TamperFundingMyInput ==
    /\ CanTamper
    /\ \/ Tampered([cp.funding EXCEPT
                      !.unsigned_tx.input = Append(@, cp.funding.unsigned_tx.input[1]),
                      !.inputs = Append(@, cp.funding.inputs[1]),
                      !.unsigned_tx.output[1].value = @ + cp.va],
                   cp.refund)
       \/ Tampered([cp.funding EXCEPT
                      !.unsigned_tx.input[1].previous_output = OutPoint(<<509>>, 0)],
                   cp.refund)

\* a refund output pays d more
TamperRefundOutputValue ==
    /\ CanTamper
    /\ \E i \in DOMAIN cp.refund.unsigned_tx.output, d \in {-1, 1} :
        /\ cp.refund.unsigned_tx.output[i].value + d >= 0
        /\ Tampered(cp.funding, [cp.refund EXCEPT !.unsigned_tx.output[i].value = @ + d])

\* one more refund output, to the user's address or to another one
TamperRefundAddOutput ==
    /\ CanTamper
    /\ \E a \in {UserRefundAddr(1), 9}, v \in {0, 500} :
        Tampered(cp.funding,
                 [cp.refund EXCEPT !.unsigned_tx.output = Append(@, TxOut(AddrScript(a), v)),
                                   !.outputs = @ + 1])

\* the refund's witness_utxo states another value than the funding output has
TamperRefundWitness ==
    /\ CanTamper
    /\ \E d \in {-1, 1, 500} :
        Tampered(cp.funding, [cp.refund EXCEPT !.inputs[1].witness_utxo[1].value = @ + d])

\* the refund carries n per-output maps
TamperRefundOutputsCount ==
    /\ CanTamper
    /\ \E n \in 0..3 :
        /\ n # cp.refund.outputs
        /\ Tampered(cp.funding, [cp.refund EXCEPT !.outputs = n])

\* the refund is rebuilt for n per-output maps: the user's output pays its share
\* for a divisor of n, the other output takes the difference
TamperRefundShares ==
    /\ CanTamper
    /\ FeeAmountOk(cp.funding)
    /\ Len(cp.refund.unsigned_tx.output) = 2
    /\ \E n \in {1, 3} :
        LET mine == cp.va - (fee_amount(cp.funding) + 1000) \div n
            rest == OutputAmount(cp.refund) - mine
        IN  /\ mine >= 0 /\ rest >= 0
            /\ Tampered(cp.funding,
                        [cp.refund EXCEPT !.unsigned_tx.output[1].value = mine,
                                          !.unsigned_tx.output[2].value = rest,
                                          !.outputs = n])

\* version, nSequence, the spent output or the number of inputs differ
TamperRefundShape ==
    /\ CanTamper
    /\ \E r \in {[cp.refund EXCEPT !.unsigned_tx.version = 1],
                 [cp.refund EXCEPT !.unsigned_tx.input[1].sequence = USERS2MAKER_OLDER - 1],
                 [cp.refund EXCEPT !.inputs = Append(@, UserPsbtIn(9, 0))],
                 [cp.refund EXCEPT
                     !.unsigned_tx.input = Append(@, TxIn(OutPoint(<<509>>, 0), -2))],
                 [cp.refund EXCEPT
                     !.unsigned_tx.input = Append(@, TxIn(OutPoint(<<509>>, 0), -2)),
                     !.inputs = Append(@, UserPsbtIn(9, 0))]} :
        Tampered(cp.funding, r)

\* the refund spends another output than output 0 of the funding transaction
TamperRefundPrevout ==
    /\ CanTamper
    /\ cp' = [cp EXCEPT !.refund.unsigned_tx.input[1].previous_output.vout = 1,
                        !.tampers = @ + 1]
    /\ UNCHANGED pvars

\* user_protocol.rs:58: user 1 validates the pair
Validate ==
    /\ cp.verdict = "none"
    /\ cp' = [cp EXCEPT !.verdict =
                 IF check_psbts(cp.funding, cp.refund, PsbtDesc, UserUtxo(1, cp.va),
                                UserRefundAddr(1), cp.overflow_checks)
                 THEN "accepted" ELSE "rejected"]
    /\ UNCHANGED pvars

NextPsbt ==
    \/ TamperFundingAddInput
    \/ TamperFundingOutputValue
    \/ TamperFundingAddOutput
    \/ TamperFundingWitness
    \/ TamperFundingScript
    \/ TamperFundingMyInput
    \/ TamperRefundOutputValue
    \/ TamperRefundAddOutput
    \/ TamperRefundWitness
    \/ TamperRefundOutputsCount
    \/ TamperRefundShares
    \/ TamperRefundShape
    \/ TamperRefundPrevout
    \/ Validate

vars == <<cp, maker, user, owner, c2m, m2c, backlog>>
SpecPsbt == InitPsbt /\ [][NextPsbt]_vars

(***************************************************************************)
(* The protocol.  One action per blocking read of a process: the read,     *)
(* every check on what was read, and everything the process computes and   *)
(* sends before its next read.  A panic (a failed assert or unwrap) ends   *)
(* the process and closes its connections.                                 *)
(***************************************************************************)
Users == {1, 2}
MakerGone == maker.pc \in {"done", "aborted"}
UserGone(u) == user[u].pc \in {"done", "aborted"}

pub_key(u, i) == PubOf(UserPrv(u, i))
my_utxo(u) == UserUtxo(u, FUNDED_VALUE)

\* read_message on the user's k-th connection (lib.rs:75-80)
UserCanRead(u, k) == m2c[user[u].conn[k]] # <<>> \/ MakerGone
UserLine(u, k) ==
    IF m2c[user[u].conn[k]] # <<>> THEN Head(m2c[user[u].conn[k]]) ELSE EOF

\* the user takes the line off connection k, becomes `next` and does `events`
UserDo(u, k, next, events) ==
    /\ m2c' = [m2c EXCEPT ![user[u].conn[k]] = IF @ = <<>> THEN @ ELSE Tail(@)]
    /\ c2m' = [c \in DOMAIN c2m |-> c2m[c] \o SendsTo(events, c)]
    /\ user' = [user EXCEPT ![u] = [next EXCEPT !.log = @ \o events]]
    /\ UNCHANGED <<cp, maker, owner, backlog>>
UserPanics(u, k) == UserDo(u, k, [user[u] EXCEPT !.pc = "aborted"], <<>>)

\* user_protocol.rs:20-37: connect, generate three keys, send_user_data
UserStart(u) ==
    /\ user[u].pc = "start"
    /\ IF MakerGone
       THEN /\ user' = [user EXCEPT ![u].pc = "aborted"]
            /\ UNCHANGED <<owner, c2m, m2c, backlog>>
       ELSE LET c == Len(owner) + 1
                events ==
                    << Sent(c, "user_keys", KeysMsg(<<pub_key(u, 1), pub_key(u, 2), pub_key(u, 3)>>)),
                       Sent(c, "utxo_desc", DescMsg(WpkhScript(u))),
                       Sent(c, "utxo_outpoint", OutPointMsg(my_utxo(u).outpoint)),
                       Sent(c, "utxo_psbt_in", PsbtInMsg(UserPsbtIn(u, FUNDED_VALUE))),
                       Sent(c, "refund_addr", AddrMsg(UserRefundAddr(u))) >>
            IN  /\ owner' = Append(owner, u)
                /\ c2m' = Append(c2m, SendsTo(events, c))
                /\ m2c' = Append(m2c, <<>>)
                /\ backlog' = Append(backlog, c)
                /\ user' = [user EXCEPT ![u].pc = "read_contract_keys",
                                        ![u].conn[1] = c,
                                        ![u].log = @ \o events]
    /\ UNCHANGED <<cp, maker>>

\* user_protocol.rs:211-212
UserReadContractKeys(u) ==
    /\ user[u].pc = "read_contract_keys"
    /\ UserCanRead(u, 1)
    /\ LET line == UserLine(u, 1)
       IN  IF ParsesKeys(line, 9)
           THEN UserDo(u, 1, [user[u] EXCEPT !.pc = "read_contract_hash",
                                             !.keys = line.keys],
                       <<Received(user[u].conn[1], "contract_keys")>>)
           ELSE UserPanics(u, 1)

\* user_protocol.rs:216-217
UserReadContractHash(u) ==
    /\ user[u].pc = "read_contract_hash"
    /\ UserCanRead(u, 1)
    /\ LET line == UserLine(u, 1)
       IN  IF line.t = "hash"
           THEN UserDo(u, 1, [user[u] EXCEPT !.pc = "read_funding", !.hash = line.hash],
                       <<Received(user[u].conn[1], "hash")>>)
           ELSE UserPanics(u, 1)

\* user_protocol.rs:43
UserReadFunding(u) ==
    /\ user[u].pc = "read_funding"
    /\ UserCanRead(u, 1)
    /\ LET line == UserLine(u, 1)
       IN  IF ParsesPsbt(line, None)
           THEN UserDo(u, 1, [user[u] EXCEPT !.pc = "read_refund",
                                             !.funding_psbt = line.psbt],
                       <<Received(user[u].conn[1], "funding")>>)
           ELSE UserPanics(u, 1)

\* a user that signs the refund it reads without checking keys or PSBTs
UserReadRefundUnchecked(u) ==
    /\ user[u].pc = "read_refund"
    /\ UserCanRead(u, 1)
    /\ LET line == UserLine(u, 1)
           c == user[u].conn[1]
       IN  IF ParsesPsbt(line, None)
           THEN LET signed == Sign(line.psbt,
                                   {pub_key(u, 1), pub_key(u, 2), pub_key(u, 3)},
                                   DOMAIN line.psbt.inputs)
                IN  UserDo(u, 1, [user[u] EXCEPT !.pc = "read_refund_final",
                                                 !.refund_psbt = signed],
                           << Received(c, "refund"),
                              Sent(c, "refund_signed", PsbtMsg(signed)) >>)
           ELSE UserPanics(u, 1)

\* user_protocol.rs:44-74: the refund is read, the contract keys and both PSBTs
\* are checked, the refund is signed with the three contract keys and sent
UserReadRefund(u) ==
    /\ user[u].pc = "read_refund"
    /\ UserCanRead(u, 1)
    /\ \E overflow_checks \in BOOLEAN :
       LET line == UserLine(u, 1)
           c == user[u].conn[1]
           desc == users2maker_contract_desc(user[u].keys, user[u].hash)
       IN  IF /\ ParsesPsbt(line, None)
              /\ check_contract_keys(user[u].keys,
                                     pub_key(u, 1), pub_key(u, 2), pub_key(u, 3))
              /\ check_psbts(user[u].funding_psbt, line.psbt, desc, my_utxo(u),
                             UserRefundAddr(u), overflow_checks)
           THEN LET signed == Sign(line.psbt,
                                   {pub_key(u, 1), pub_key(u, 2), pub_key(u, 3)},
                                   DOMAIN line.psbt.inputs)
                IN  UserDo(u, 1, [user[u] EXCEPT !.pc = "read_refund_final",
                                                 !.refund_psbt = signed],
                           << Received(c, "refund"),
                              Sent(c, "refund_signed", PsbtMsg(signed)) >>)
           ELSE UserPanics(u, 1)

\* the inputs the funded wallet of u can sign: those spending its own script
MyInputs(u, psbt) ==
    {i \in DOMAIN psbt.inputs :
        /\ i <= Len(psbt.unsigned_tx.input)
        /\ HasUtxoFor(psbt, i)
        /\ get_utxo_for(psbt, i).script_pubkey = WpkhScript(u)}

\* user_protocol.rs:77-83: a PSBT with the refund's txid is read back, then the
\* funding transaction is signed with the wallet key and sent
UserReadRefundFinal(u) ==
    /\ user[u].pc = "read_refund_final"
    /\ UserCanRead(u, 1)
    /\ LET line == UserLine(u, 1)
           c == user[u].conn[1]
       IN  IF ParsesPsbt(line, Some(Txid(user[u].refund_psbt.unsigned_tx)))
           THEN LET signed == Sign(user[u].funding_psbt, {WalletPub(u)},
                                   MyInputs(u, user[u].funding_psbt))
                IN  UserDo(u, 1, [user[u] EXCEPT !.pc = "read_funding_final",
                                                 !.refund_final = line.psbt,
                                                 !.funding_psbt = signed],
                           << Received(c, "refund_final"),
                              Sent(c, "funding_signed", PsbtMsg(signed)) >>)
           ELSE UserPanics(u, 1)

\* user_protocol.rs:86-105: the funding transaction is read back, then the user
\* connects again and sends two fresh keys on the new connection
UserReadFundingFinal(u) ==
    /\ user[u].pc = "read_funding_final"
    /\ UserCanRead(u, 1)
    /\ LET line == UserLine(u, 1)
           old == user[u].conn[1]
           c == Len(owner) + 1
           events == << Received(old, "funding_final"),
                        Sent(c, "second_user_keys",
                             KeysMsg(<<pub_key(u, 4), pub_key(u, 5)>>)) >>
       IN  IF ParsesPsbt(line, Some(Txid(user[u].funding_psbt.unsigned_tx))) /\ ~MakerGone
           THEN /\ owner' = Append(owner, u)
                /\ c2m' = Append(c2m, SendsTo(events, c))
                /\ m2c' = Append([m2c EXCEPT ![old] = Tail(@)], <<>>)
                /\ backlog' = Append(backlog, c)
                /\ user' = [user EXCEPT ![u].pc = "read_second_keys",
                                        ![u].funding_final = line.psbt,
                                        ![u].conn[2] = c,
                                        ![u].log = @ \o events]
                /\ UNCHANGED <<cp, maker>>
           ELSE UserPanics(u, 1)

\* user_protocol.rs:174
UserReadSecondKeys(u) ==
    /\ user[u].pc = "read_second_keys"
    /\ UserCanRead(u, 2)
    /\ LET line == UserLine(u, 2)
       IN  IF ParsesKeys(line, 2)
           THEN UserDo(u, 2, [user[u] EXCEPT !.pc = "read_second_txid",
                                             !.maker_keys = line.keys],
                       <<Received(user[u].conn[2], "maker_keys")>>)
           ELSE UserPanics(u, 2)

\* a user that goes on without comparing the maker's two keys
UserReadSecondTxidAnyKeys(u) ==
    /\ user[u].pc = "read_second_txid"
    /\ UserCanRead(u, 2)
    /\ LET line == UserLine(u, 2)
       IN  IF line.t = "txid"
           THEN UserDo(u, 2, [user[u] EXCEPT !.pc = "read_preimage",
                                             !.txid = line.txid],
                       << Received(user[u].conn[2], "txid"),
                          Sent(user[u].conn[1], "prv_key3", PrvMsg(UserPrv(u, 3))) >>)
           ELSE UserPanics(u, 2)

\* user_protocol.rs:176-178, 113-133: the txid is read, the two maker keys must
\* differ, and the hashlock private key goes out on the first connection
UserReadSecondTxid(u) ==
    /\ user[u].pc = "read_second_txid"
    /\ UserCanRead(u, 2)
    /\ LET line == UserLine(u, 2)
       IN  IF line.t = "txid" /\ user[u].maker_keys[1] # user[u].maker_keys[2]
           THEN UserDo(u, 2, [user[u] EXCEPT !.pc = "read_preimage",
                                             !.txid = line.txid],
                       << Received(user[u].conn[2], "txid"),
                          Sent(user[u].conn[1], "prv_key3", PrvMsg(UserPrv(u, 3))) >>)
           ELSE UserPanics(u, 2)

\* user_protocol.rs:160-161
UserReadPreimage(u) ==
    /\ user[u].pc = "read_preimage"
    /\ UserCanRead(u, 2)
    /\ LET line == UserLine(u, 2)
       IN  IF line.t = "preimage"
           THEN UserDo(u, 2, [user[u] EXCEPT !.pc = "read_maker_prv_key",
                                             !.preimage = line.preimage],
                       <<Received(user[u].conn[2], "preimage")>>)
           ELSE UserPanics(u, 2)

\* a user that releases its key without comparing the preimage with the hash
UserReadMakerPrvKeyNoHash(u) ==
    /\ user[u].pc = "read_maker_prv_key"
    /\ UserCanRead(u, 2)
    /\ LET line == UserLine(u, 2)
       IN  IF /\ line.t = "prv"
              /\ check_prv_keys(<<line.key>>, <<user[u].maker_keys[1]>>)
           THEN UserDo(u, 2, [user[u] EXCEPT !.pc = "done",
                                             !.maker_prv_key = line.key],
                       << Received(user[u].conn[2], "maker_prv_key"),
                          Sent(user[u].conn[1], "prv_key1", PrvMsg(UserPrv(u, 1))) >>)
           ELSE UserPanics(u, 2)

\* user_protocol.rs:163-164, 142-151: the maker's private key is read, preimage
\* and key are checked, and the cooperative-path private key is sent
UserReadMakerPrvKey(u) ==
    /\ user[u].pc = "read_maker_prv_key"
    /\ UserCanRead(u, 2)
    /\ LET line == UserLine(u, 2)
       IN  IF /\ line.t = "prv"
              /\ Sha256(user[u].preimage) = user[u].hash
              /\ check_prv_keys(<<line.key>>, <<user[u].maker_keys[1]>>)
           THEN UserDo(u, 2, [user[u] EXCEPT !.pc = "done",
                                             !.maker_prv_key = line.key],
                       << Received(user[u].conn[2], "maker_prv_key"),
                          Sent(user[u].conn[1], "prv_key1", PrvMsg(UserPrv(u, 1))) >>)
           ELSE UserPanics(u, 2)

(***************************************************************************)
(* The maker (maker_protocol.rs:19-195).  maker.conn lists the accepted    *)
(* connections in order: A, B, X, Y.  maker.idx is the position in the     *)
(* loop over the two readers.                                              *)
(***************************************************************************)
MakerPreimage == 7
pub_key_m(i) == PubOf(MakerPrv(i))
\* the fee the transaction builder settles on for the funding transaction
\* (lib.rs:208, 225): its fee rate of one unit per virtual byte times the
\* weight of the transaction, each input counted with the satisfaction weight
\* of its descriptor and rounded up on its own.  Two wpkh inputs give an even
\* fee, a wpkh input and one of another kind an odd one.
funding_fee(utxos) ==
    54 + SumSeq([i \in DOMAIN utxos |->
                    (160 + max_satisfaction_weight(
                               utxos[i].psbt_input.witness_utxo[1].script_pubkey) + 3) \div 4])
\* the same for a maker-to-user funding transaction
SecondFees == {153}

PeerGone(c) == owner[c] \in Users /\ UserGone(owner[c])
\* a read that returns at once, as at the end of the stream
MakerCanReadAtOnce(c) == TRUE
MakerCanRead(c) == c2m[c] # <<>> \/ PeerGone(c)
MakerLine(c) == IF c2m[c] # <<>> THEN Head(c2m[c]) ELSE EOF

\* the maker takes the line off connection c, becomes `next` and does `events`
MakerDo(c, next, events) ==
    /\ c2m' = [c2m EXCEPT ![c] = IF @ = <<>> THEN @ ELSE Tail(@)]
    /\ m2c' = [d \in DOMAIN m2c |-> m2c[d] \o SendsTo(events, d)]
    /\ maker' = [next EXCEPT !.log = @ \o events]
    /\ UNCHANGED <<cp, user, owner, backlog>>
MakerPanics(c) == MakerDo(c, [maker EXCEPT !.pc = "aborted"], <<>>)

\* accept_connection (maker_protocol.rs:325-331), called for A and B (24-27)
\* and for X and Y (97-100)
MakerAccept ==
    /\ maker.pc \in {"accept", "accept_second"}
    /\ backlog # <<>>
    /\ backlog' = Tail(backlog)
    /\ maker' = [maker EXCEPT
                    !.conn = Append(@, Head(backlog)),
                    !.idx = IF @ = 1 THEN 2 ELSE 1,
                    !.pc = IF maker.idx = 1 THEN @
                           ELSE IF @ = "accept" THEN "read_user_keys"
                           ELSE "read_second_user_data"]
    /\ UNCHANGED <<cp, user, owner, c2m, m2c>>

\* maker_protocol.rs:301
MakerReadUserKeys ==
    /\ maker.pc = "read_user_keys"
    /\ MakerCanRead(maker.conn[maker.idx])
    /\ LET c == maker.conn[maker.idx]
           line == MakerLine(c)
       IN  IF ParsesKeys(line, 3)
           THEN MakerDo(c, [maker EXCEPT !.pc = "read_utxo_desc",
                                         !.user_keys = Append(@, line.keys)],
                        <<Received(c, "user_keys")>>)
           ELSE MakerPanics(c)

\* maker_protocol.rs:334-335
MakerReadUtxoDesc ==
    /\ maker.pc = "read_utxo_desc"
    /\ MakerCanRead(maker.conn[maker.idx])
    /\ LET c == maker.conn[maker.idx]
           line == MakerLine(c)
       IN  IF line.t = "desc"
           THEN MakerDo(c, [maker EXCEPT !.pc = "read_utxo_outpoint",
                                         !.desc = Append(@, line.spk)],
                        <<Received(c, "utxo_desc")>>)
           ELSE MakerPanics(c)

\* maker_protocol.rs:337-338
MakerReadUtxoOutpoint ==
    /\ maker.pc = "read_utxo_outpoint"
    /\ MakerCanRead(maker.conn[maker.idx])
    /\ LET c == maker.conn[maker.idx]
           line == MakerLine(c)
       IN  IF line.t = "outpoint"
           THEN MakerDo(c, [maker EXCEPT !.pc = "read_utxo_psbt_in",
                                         !.outpoint = Append(@, line.outpoint)],
                        <<Received(c, "utxo_outpoint")>>)
           ELSE MakerPanics(c)

\* maker_protocol.rs:340-351: the psbt input must carry a witness_utxo that pays
\* to the descriptor read before
MakerReadUtxoPsbtIn ==
    /\ maker.pc = "read_utxo_psbt_in"
    /\ MakerCanRead(maker.conn[maker.idx])
    /\ LET c == maker.conn[maker.idx]
           line == MakerLine(c)
       IN  IF /\ line.t = "psbt_in"
              /\ line.input.witness_utxo # None
              /\ line.input.witness_utxo[1].script_pubkey = maker.desc[maker.idx]
           THEN MakerDo(c, [maker EXCEPT
                               !.pc = "read_refund_addr",
                               !.weighted = Append(@, WeightedUtxo(maker.outpoint[maker.idx],
                                                                   line.input))],
                        <<Received(c, "utxo_psbt_in")>>)
           ELSE MakerPanics(c)

\* contract data sent with the hash of another value than the secret
send_contract_data_other_hash(keys, hash, funding, refund, writers) ==
    Flatten([i \in DOMAIN writers |->
        << Sent(writers[i], "contract_keys", KeysMsg(keys)),
           Sent(writers[i], "hash", HashMsg(hash + 1)),
           Sent(writers[i], "funding", PsbtMsg(funding)),
           Sent(writers[i], "refund", PsbtMsg(refund)) >>])

\* the events of send_contract_data (maker_protocol.rs:276-296)
send_contract_data(keys, hash, funding, refund, writers) ==
    Flatten([i \in DOMAIN writers |->
        << Sent(writers[i], "contract_keys", KeysMsg(keys)),
           Sent(writers[i], "hash", HashMsg(hash)),
           Sent(writers[i], "funding", PsbtMsg(funding)),
           Sent(writers[i], "refund", PsbtMsg(refund)) >>])

\* the events of send_psbt and of the sending half of sign_and_send_psbt
\* (maker_protocol.rs:268-274, lib.rs:102-106)
send_psbt(what, psbt, writers) ==
    [i \in DOMAIN writers |-> Sent(writers[i], what, PsbtMsg(psbt))]

\* maker_protocol.rs:354-358, and after the data of B: 37-59.  The maker
\* generates its keys and the secret, builds funding and refund and sends the
\* contract data to A and B.
MakerReadRefundAddr ==
    /\ maker.pc = "read_refund_addr"
    /\ MakerCanRead(maker.conn[maker.idx])
    /\ LET c == maker.conn[maker.idx]
           line == MakerLine(c)
       IN  IF line.t # "addr" THEN MakerPanics(c)
           ELSE IF maker.idx = 1
           THEN MakerDo(c, [maker EXCEPT !.pc = "read_user_keys", !.idx = 2,
                                         !.addr = Append(@, line.addr)],
                        <<Received(c, "refund_addr")>>)
           ELSE
           LET fee == funding_fee(maker.weighted)
               a == maker.user_keys[1]
               b == maker.user_keys[2]
               keys == ContractKeys(a[1], a[2], a[3], b[1], b[2], b[3],
                                    pub_key_m(1), pub_key_m(2), pub_key_m(3))
               hash == Sha256(MakerPreimage)
           IN  \E built \in {build_funding_and_refund(
                                users2maker_contract_desc(keys, hash),
                                maker.weighted, Append(maker.addr, line.addr), fee)} :
               IF ~built.ok THEN MakerPanics(c)
               ELSE MakerDo(c, [maker EXCEPT !.pc = "read_refund_psbt", !.idx = 1,
                                             !.addr = Append(@, line.addr),
                                             !.keys = keys,
                                             !.preimage = MakerPreimage,
                                             !.hash = hash,
                                             !.funding_psbt = built.funding,
                                             !.refund_psbt = built.refund],
                            <<Received(c, "refund_addr")>>
                            \o send_contract_data(keys, hash, built.funding, built.refund,
                                                  SubSeq(maker.conn, 1, 2)))

\* read_and_combine_psbt for the refund (maker_protocol.rs:64-65, 308-323), then
\* the maker signs with its three contract keys and sends the result to A and B
\* (maker_protocol.rs:67-82)
MakerReadRefund ==
    /\ maker.pc = "read_refund_psbt"
    /\ MakerCanRead(maker.conn[maker.idx])
    /\ LET c == maker.conn[maker.idx]
           line == MakerLine(c)
       IN  IF ~ParsesPsbt(line, Some(Txid(maker.refund_psbt.unsigned_tx)))
           THEN MakerPanics(c)
           ELSE IF maker.idx = 1
           THEN MakerDo(c, [maker EXCEPT !.idx = 2, !.signed_psbts = <<line.psbt>>],
                        <<Received(c, "refund_signed")>>)
           ELSE IF ~CombineOk(maker.signed_psbts[1], line.psbt) THEN MakerPanics(c)
           ELSE
           LET refund_final ==
                   Sign(Combine(maker.signed_psbts[1], line.psbt),
                        {pub_key_m(1), pub_key_m(2), pub_key_m(3)},
                        DOMAIN maker.signed_psbts[1].inputs)
           IN  MakerDo(c, [maker EXCEPT !.pc = "read_funding_psbt", !.idx = 1,
                                        !.signed_psbts = <<>>,
                                        !.refund_final = refund_final],
                       <<Received(c, "refund_signed")>>
                       \o send_psbt("refund_final", refund_final, SubSeq(maker.conn, 1, 2)))

\* read_and_combine_psbt for the funding transaction and send_psbt
\* (maker_protocol.rs:86-88)
MakerReadFunding ==
    /\ maker.pc = "read_funding_psbt"
    /\ MakerCanRead(maker.conn[maker.idx])
    /\ LET c == maker.conn[maker.idx]
           line == MakerLine(c)
       IN  IF ~ParsesPsbt(line, Some(Txid(maker.funding_psbt.unsigned_tx)))
           THEN MakerPanics(c)
           ELSE IF maker.idx = 1
           THEN MakerDo(c, [maker EXCEPT !.idx = 2, !.signed_psbts = <<line.psbt>>],
                        <<Received(c, "funding_signed")>>)
           ELSE IF ~CombineOk(maker.signed_psbts[1], line.psbt) THEN MakerPanics(c)
           ELSE
           LET funding_final == Combine(maker.signed_psbts[1], line.psbt)
           IN  MakerDo(c, [maker EXCEPT !.pc = "accept_second", !.idx = 1,
                                        !.signed_psbts = <<>>,
                                        !.funding_final = funding_final],
                       <<Received(c, "funding_signed")>>
                       \o send_psbt("funding_final", funding_final, SubSeq(maker.conn, 1, 2)))

\* build_second_funding (maker_protocol.rs:242-250) from the j-th fresh funded
\* wallet of the maker: the contract output and the change
build_second_funding(j, pub_desc, fee) ==
    Psbt(Transaction(1, <<TxIn(OutPoint(<<600 + j>>, 0), -2)>>,
                     << TxOut(ScriptPubkey(pub_desc), SECOND_AMOUNT),
                        TxOut(WpkhScript(60 + j), FUNDED_VALUE - SECOND_AMOUNT - fee) >>),
         <<PsbtInput(Some(TxOut(WpkhScript(60 + j), FUNDED_VALUE)),
                     Some(<<TxOut(WpkhScript(60 + j), FUNDED_VALUE)>>), {})>>,
         2)

\* what wallet.sign returns to wallet w (maker_protocol.rs:144-145): every input
\* spends an output of w and carries the signature of its key
finalized(w, psbt) ==
    \A i \in DOMAIN psbt.inputs :
        /\ i \in MyInputs(w, psbt)
        /\ WalletPub(w) \in psbt.inputs[i].partial_sigs

\* an account of the contract outputs that leaves the fee out
spent_without_fee(psbt, pub_desc) ==
    SumSeq([i \in DOMAIN psbt.unsigned_tx.output |->
               IF psbt.unsigned_tx.output[i].script_pubkey = ScriptPubkey(pub_desc)
               THEN psbt.unsigned_tx.output[i].value ELSE 0])

\* maker_protocol.rs:139-142: what one maker-to-user transaction adds to total_spent
spent(psbt, pub_desc) ==
    SumSeq([i \in DOMAIN psbt.unsigned_tx.output |->
               IF psbt.unsigned_tx.output[i].script_pubkey = ScriptPubkey(pub_desc)
               THEN psbt.unsigned_tx.output[i].value ELSE 0])
    + fee_amount(psbt)

\* second contract data sent with the txid line before the keys line
send_second_contract_data_txid_first(maker_keys, txids, writers) ==
    Flatten([i \in DOMAIN writers |->
        << Sent(writers[i], "txid", TxidMsg(txids[i])),
           Sent(writers[i], "maker_keys", KeysMsg(maker_keys[i])) >>])

\* second contract data with each connection getting the keys of the other one
send_second_contract_data_crossed(maker_keys, txids, writers) ==
    Flatten([i \in DOMAIN writers |->
        << Sent(writers[i], "maker_keys", KeysMsg(maker_keys[Len(writers) + 1 - i])),
           Sent(writers[i], "txid", TxidMsg(txids[i])) >>])

\* the events of send_second_contract_data (maker_protocol.rs:225-239)
send_second_contract_data(maker_keys, txids, writers) ==
    Flatten([i \in DOMAIN writers |->
        << Sent(writers[i], "maker_keys", KeysMsg(maker_keys[i])),
           Sent(writers[i], "txid", TxidMsg(txids[i])) >>])

\* the preimage sent with the private key generated after the multisig one
send_preimage_and_prv_keys_next_key(preimage, prv_keys, writers) ==
    Flatten([i \in DOMAIN writers |->
        << Sent(writers[i], "preimage", PreimageMsg(preimage)),
           Sent(writers[i], "maker_prv_key", PrvMsg(prv_keys[i] + 1)) >>])

\* the preimage and the maker's keys written to the first two connections
send_preimage_and_prv_keys_old_ids(preimage, prv_keys, writers) ==
    Flatten([i \in DOMAIN writers |->
        << Sent(maker.conn[i], "preimage", PreimageMsg(preimage)),
           Sent(maker.conn[i], "maker_prv_key", PrvMsg(prv_keys[i])) >>])

\* the events of send_preimage_and_prv_keys (maker_protocol.rs:197-209)
send_preimage_and_prv_keys(preimage, prv_keys, writers) ==
    Flatten([i \in DOMAIN writers |->
        << Sent(writers[i], "preimage", PreimageMsg(preimage)),
           Sent(writers[i], "maker_prv_key", PrvMsg(prv_keys[i])) >>])

\* read_second_user_data (maker_protocol.rs:102-103, 262-266), and after the
\* keys of Y: the two maker-to-user contracts are built and funded, and the
\* maker's keys and the txid go to X and to Y (maker_protocol.rs:105-161)
MakerReadSecondUserData ==
    /\ maker.pc = "read_second_user_data"
    /\ MakerCanRead(maker.conn[2 + maker.idx])
    /\ LET c == maker.conn[2 + maker.idx]
           line == MakerLine(c)
       IN  IF ~ParsesKeys(line, 2) THEN MakerPanics(c)
           ELSE IF maker.idx = 1
           THEN MakerDo(c, [maker EXCEPT !.idx = 2, !.second_keys = <<line.keys>>],
                        <<Received(c, "second_user_keys")>>)
           ELSE
           \E fee \in SecondFees :
           LET x == maker.second_keys[1]
               y == line.keys
               maker2user_x_desc == maker2users_contract_desc(
                   <<x[1], pub_key_m(4)>>, pub_key_m(5), x[2], maker.hash)
               maker2user_y_desc == maker2users_contract_desc(
                   <<y[1], pub_key_m(6)>>, pub_key_m(7), y[2], maker.hash)
               psbt_x == build_second_funding(1, maker2user_x_desc, fee)
               psbt_y == build_second_funding(2, maker2user_y_desc, fee)
               signed_x == Sign(psbt_x, {WalletPub(60 + 1)}, MyInputs(60 + 1, psbt_x))
               signed_y == Sign(psbt_y, {WalletPub(60 + 2)}, MyInputs(60 + 2, psbt_y))
           IN  IF ~finalized(60 + 1, signed_x) \/ ~finalized(60 + 2, signed_y)
               THEN MakerPanics(c)
               ELSE
               MakerDo(c, [maker EXCEPT
                              !.pc = "read_hashlock_prv_key", !.idx = 1,
                              !.second_keys = Append(@, line.keys),
                              !.total_spent = spent(psbt_x, maker2user_x_desc)
                                              + spent(psbt_y, maker2user_y_desc),
                              !.maker2users_txs = <<signed_x, signed_y>>],
                       <<Received(c, "second_user_keys")>>
                       \o send_second_contract_data(
                              << <<pub_key_m(4), pub_key_m(5)>>,
                                 <<pub_key_m(6), pub_key_m(7)>> >>,
                              <<Txid(psbt_x.unsigned_tx), Txid(psbt_y.unsigned_tx)>>,
                              SubSeq(maker.conn, 3, 4)))

\* read_prv_keys on the connections of A and B (maker_protocol.rs:168, 211-223),
\* check_prv_keys against the hashlock keys, then the preimage and the maker's
\* multisig private keys go to X and Y (maker_protocol.rs:173-176)
MakerReadHashlockPrvKey ==
    /\ maker.pc = "read_hashlock_prv_key"
    /\ MakerCanRead(maker.conn[maker.idx])
    /\ LET c == maker.conn[maker.idx]
           line == MakerLine(c)
       IN  IF line.t # "prv" THEN MakerPanics(c)
           ELSE IF maker.idx = 1
           THEN MakerDo(c, [maker EXCEPT !.idx = 2, !.hashlock_prv_keys = <<line.key>>],
                        <<Received(c, "prv_key3")>>)
           ELSE
           LET hashlock_prv_keys == Append(maker.hashlock_prv_keys, line.key)
           IN  IF ~check_prv_keys(hashlock_prv_keys,
                                  <<maker.user_keys[1][3], maker.user_keys[2][3]>>)
               THEN MakerDo(c, [maker EXCEPT !.pc = "aborted",
                                             !.hashlock_prv_keys = hashlock_prv_keys],
                            <<>>)
               ELSE MakerDo(c, [maker EXCEPT !.pc = "read_prv_key", !.idx = 1,
                                             !.hashlock_prv_keys = hashlock_prv_keys],
                            <<Received(c, "prv_key3")>>
                            \o send_preimage_and_prv_keys(
                                   maker.preimage, <<MakerPrv(4), MakerPrv(6)>>,
                                   SubSeq(maker.conn, 3, 4)))

\* the second read_prv_keys, check_prv_keys against the cooperative-path keys,
\* and the profit (maker_protocol.rs:182-192)
MakerReadPrvKey ==
    /\ maker.pc = "read_prv_key"
    /\ MakerCanRead(maker.conn[maker.idx])
    /\ \E overflow_checks \in BOOLEAN :
       LET c == maker.conn[maker.idx]
           line == MakerLine(c)
       IN  IF line.t # "prv" THEN MakerPanics(c)
           ELSE IF maker.idx = 1
           THEN MakerDo(c, [maker EXCEPT !.idx = 2, !.prv_keys = <<line.key>>],
                        <<Received(c, "prv_key1")>>)
           ELSE
           LET prv_keys == Append(maker.prv_keys, line.key)
               total_received == maker.funding_final.unsigned_tx.output[1].value
           IN  IF \/ ~check_prv_keys(prv_keys,
                                     <<maker.user_keys[1][1], maker.user_keys[2][1]>>)
                  \/ overflow_checks /\ ULt(total_received, maker.total_spent)
               THEN MakerDo(c, [maker EXCEPT !.pc = "aborted", !.prv_keys = prv_keys],
                            <<>>)
               ELSE MakerDo(c, [maker EXCEPT !.pc = "done",
                                             !.prv_keys = prv_keys,
                                             !.profit = total_received - maker.total_spent],
                            <<Received(c, "prv_key1")>>)

\* maker_protocol.rs:45-46: the users-to-maker descriptor, once built
MakerUsers2MakerDescs ==
    IF maker.keys = <<>> THEN {}
    ELSE {users2maker_contract_desc(maker.keys, maker.hash)}

\* maker_protocol.rs:116-127: the two maker-to-user descriptors, once built
MakerMaker2UserDescs ==
    IF maker.maker2users_txs = <<>> THEN {}
    ELSE { maker2users_contract_desc(<<maker.second_keys[1][1], pub_key_m(4)>>,
                                     pub_key_m(5), maker.second_keys[1][2], maker.hash),
           maker2users_contract_desc(<<maker.second_keys[2][1], pub_key_m(6)>>,
                                     pub_key_m(7), maker.second_keys[2][2], maker.hash) }

\* user_protocol.rs:52-53: the users-to-maker descriptor u derived from the keys
\* and hash it read, once check_contract_keys let it through
UserUsers2MakerDescs(u) ==
    IF user[u].refund_psbt = NoPsbt THEN {}
    ELSE {users2maker_contract_desc(user[u].keys, user[u].hash)}

\* user_protocol.rs:113-119: the maker-to-user descriptor u derived from its own
\* two keys and the two maker keys, once read_second_contract_data returned
UserMaker2UserDescs(u) ==
    IF user[u].txid = <<>> THEN {}
    ELSE {maker2users_contract_desc(<<pub_key(u, 4), user[u].maker_keys[1]>>,
                                    user[u].maker_keys[2], pub_key(u, 5), user[u].hash)}

(***************************************************************************)
(* Peers that do not run this code.  A connection opened by anyone but     *)
(* user 1 and user 2 has owner 0; what arrives on it is any line its peer  *)
(* can make up from what it was sent and its own keys.  A maker that does  *)
(* not run maker_protocol.rs (maker.pc = "corrupt") answers a user in the  *)
(* same way.  A line is delivered when the reader waits for it; EOF stands *)
(* for closing the connection.                                             *)
(***************************************************************************)
MaxIntruderConns == 4
\* the value of a small utxo such a peer may bring in
LowCollateral == 30000

\* keys, wallet and address behind connection c of owner 0
IntruderPrv(c, i) == 40 + 5 * c + i
IntruderWallet(c) == 40 + c
\* keys, wallet and secret of a corrupt maker
AdvPrv(i) == 80 + i
AdvWallet == IntruderWallet(MaxIntruderConns + 1)
AdvPreimage == MakerPreimage + 1

IntruderConns == {c \in DOMAIN owner : owner[c] = 0}

\* TcpStream::connect by a peer of its own
IntruderConnect ==
    /\ maker.pc \in {"accept", "accept_second"}
    /\ backlog = <<>>
    /\ Cardinality(IntruderConns) < MaxIntruderConns
    /\ owner' = Append(owner, 0)
    /\ c2m' = Append(c2m, <<>>)
    /\ m2c' = Append(m2c, <<>>)
    /\ backlog' = <<Len(owner) + 1>>
    /\ UNCHANGED <<cp, maker, user>>

\* the connection the maker is reading on
MakerReading ==
    IF maker.pc = "read_second_user_data" THEN maker.conn[2 + maker.idx]
    ELSE maker.conn[maker.idx]
MakerReads ==
    maker.pc \in {"read_user_keys", "read_utxo_desc", "read_utxo_outpoint",
                  "read_utxo_psbt_in", "read_refund_addr", "read_refund_psbt",
                  "read_funding_psbt", "read_second_user_data",
                  "read_hashlock_prv_key", "read_prv_key"}

\* the psbt::Input a peer sends for a utxo of value v locked by script spk
IntruderPsbtIn(spk, v) == PsbtInput(Some(TxOut(spk, v)), Some(<<TxOut(spk, v)>>), {})

\* the lines the peer behind connection c may send for the maker's next read
IntruderLines(c) ==
    LET key(i) == PubOf(IntruderPrv(c, i))
        mine == {key(1), key(2), key(3)}
        first == {d \in IntruderConns : d \in {maker.conn[1], maker.conn[2]}}
    IN  CASE maker.pc = "read_user_keys" ->
               {KeysMsg(<<key(1), key(2), key(3)>>), KeysMsg(<<key(1), key(1), key(3)>>)}
               \cup {KeysMsg(maker.user_keys[i]) : i \in DOMAIN maker.user_keys}
          [] maker.pc = "read_utxo_desc" ->
               {DescMsg(WpkhScript(IntruderWallet(c))), DescMsg(WshPkScript(IntruderWallet(c)))}
          [] maker.pc = "read_utxo_outpoint" ->
               {OutPointMsg(UserUtxo(IntruderWallet(c), FUNDED_VALUE).outpoint)}
          [] maker.pc = "read_utxo_psbt_in" ->
               {PsbtInMsg(IntruderPsbtIn(maker.desc[maker.idx], FUNDED_VALUE)),
                PsbtInMsg(UserPsbtIn(AdvWallet, FUNDED_VALUE))}
               \cup (IF c = maker.conn[1]
                     THEN {PsbtInMsg(IntruderPsbtIn(maker.desc[maker.idx], LowCollateral))}
                     ELSE {})
          [] maker.pc = "read_refund_addr" -> {AddrMsg(IntruderWallet(c))}
          [] maker.pc = "read_refund_psbt" ->
               {PsbtMsg(maker.refund_psbt),
                PsbtMsg(Sign(maker.refund_psbt, mine, DOMAIN maker.refund_psbt.inputs)),
                PsbtMsg(maker.funding_psbt)}
          [] maker.pc = "read_funding_psbt" ->
               {PsbtMsg(maker.funding_psbt),
                PsbtMsg(Sign(maker.funding_psbt, {WalletPub(IntruderWallet(c))},
                             MyInputs(IntruderWallet(c), maker.funding_psbt))),
                PsbtMsg(maker.refund_psbt)}
          [] maker.pc = "read_second_user_data" ->
               {KeysMsg(<<key(4), key(5)>>)}
               \cup (IF c = maker.conn[4] THEN {KeysMsg(<<key(4), key(4)>>)} ELSE {})
          [] maker.pc = "read_hashlock_prv_key" ->
               {PrvMsg(IntruderPrv(d, 3)) : d \in first} \cup {PrvMsg(IntruderPrv(c, 1))}
          [] maker.pc = "read_prv_key" ->
               {PrvMsg(IntruderPrv(d, 1)) : d \in first} \cup {PrvMsg(IntruderPrv(c, 3))}

IntruderSend ==
    /\ MakerReads
    /\ owner[MakerReading] = 0
    /\ c2m[MakerReading] = <<>>
    /\ \E line \in IntruderLines(MakerReading) \cup {EOF} :
           c2m' = [c2m EXCEPT ![MakerReading] = <<line>>]
    /\ UNCHANGED <<cp, maker, user, owner, m2c, backlog>>

\* the connection user u is reading on
UserReading(u) ==
    IF user[u].pc \in {"read_second_keys", "read_second_txid", "read_preimage",
                       "read_maker_prv_key"}
    THEN user[u].conn[2] ELSE user[u].conn[1]
UserReads(u) ==
    user[u].pc \in {"read_contract_keys", "read_contract_hash", "read_funding",
                    "read_refund", "read_refund_final", "read_funding_final",
                    "read_second_keys", "read_second_txid", "read_preimage",
                    "read_maker_prv_key"}

\* the funding transaction a corrupt maker makes for the contract u was told
\* of, from u's utxo and one of its own, and the refund that goes with a
\* funding transaction
AdvFunding(u, fee) ==
    build_funding_tx(
        ScriptPubkey(users2maker_contract_desc(user[u].keys, user[u].hash)),
        << WeightedUtxo(my_utxo(u).outpoint, UserPsbtIn(u, FUNDED_VALUE)),
           WeightedUtxo(UserUtxo(AdvWallet, FUNDED_VALUE).outpoint,
                        UserPsbtIn(AdvWallet, FUNDED_VALUE)) >>,
        fee).psbt
AdvRefund(u, funding) ==
    LET r == build_refund_tx(funding.unsigned_tx.output[1],
                             << <<UserRefundAddr(u), FUNDED_VALUE>>,
                                <<AdvWallet, FUNDED_VALUE>> >>,
                             funding).psbt
    IN  [r EXCEPT !.inputs[1].witness_utxo = Some(funding.unsigned_tx.output[1])]

\* the lines a corrupt maker may send for the next read of user u
AdvLines(u) ==
    LET adv(i) == PubOf(AdvPrv(i))
        pc == user[u].pc
    IN  CASE pc = "read_contract_keys" ->
               {KeysMsg(ContractKeys(pub_key(u, 1), pub_key(u, 2), pub_key(u, 3),
                                     adv(1), adv(2), adv(3), adv(4), adv(5), adv(6))),
                KeysMsg(ContractKeys(pub_key(u, 1), pub_key(u, 2), adv(7),
                                     adv(1), adv(2), adv(3), adv(4), adv(5), adv(6))),
                KeysMsg(ContractKeys(pub_key(u, 1), pub_key(u, 2), pub_key(u, 3),
                                     adv(1), adv(2), adv(3), adv(1), adv(5), adv(6)))}
          [] pc = "read_contract_hash" -> {HashMsg(Sha256(AdvPreimage))}
          [] pc = "read_funding" ->
               {PsbtMsg(AdvFunding(u, fee)) : fee \in {190, FEE_CEILING}}
          [] pc = "read_refund" ->
               LET r == AdvRefund(u, user[u].funding_psbt)
               IN  {PsbtMsg(r),
                    PsbtMsg([r EXCEPT !.unsigned_tx.output[1].value = @ - 1])}
          [] pc = "read_refund_final" ->
               {PsbtMsg(user[u].refund_psbt),
                PsbtMsg(Sign(user[u].refund_psbt, {adv(i) : i \in 1..6},
                             DOMAIN user[u].refund_psbt.inputs)),
                PsbtMsg(user[u].funding_psbt)}
          [] pc = "read_funding_final" ->
               {PsbtMsg(user[u].funding_psbt),
                PsbtMsg(Sign(user[u].funding_psbt, {WalletPub(AdvWallet)},
                             MyInputs(AdvWallet, user[u].funding_psbt))),
                PsbtMsg(user[u].refund_psbt)}
          [] pc = "read_second_keys" ->
               {KeysMsg(<<adv(7), adv(8)>>), KeysMsg(<<adv(7), adv(7)>>),
                KeysMsg(<<pub_key(u, 4), adv(8)>>)}
          [] pc = "read_second_txid" -> {TxidMsg(<<777>>)}
          [] pc = "read_preimage" ->
               {PreimageMsg(AdvPreimage), PreimageMsg(AdvPreimage + 1)}
          [] pc = "read_maker_prv_key" -> {PrvMsg(AdvPrv(7)), PrvMsg(AdvPrv(8))}

CorruptMakerSend(u) ==
    /\ maker.pc = "corrupt"
    /\ UserReads(u)
    /\ m2c[UserReading(u)] = <<>>
    /\ \E line \in AdvLines(u) \cup {EOF} :
           m2c' = [m2c EXCEPT ![UserReading(u)] = <<line>>]
    /\ UNCHANGED <<cp, maker, user, owner, c2m, backlog>>

(***************************************************************************)
(* The system: the maker with any of the two users and any other peers,    *)
(* or user 1 facing a corrupt maker.                                       *)
(***************************************************************************)
Init ==
    /\ cp = [verdict |-> "off"]
    /\ owner = <<>> /\ c2m = <<>> /\ m2c = <<>> /\ backlog = <<>>
    /\ \/ /\ maker = MakerLocals("accept")
          /\ \E present \in SUBSET Users :
                 user = [u \in Users |->
                            UserLocals(IF u \in present THEN "start" ELSE "absent")]
       \/ /\ maker = MakerLocals("corrupt")
          /\ user = [u \in Users |-> UserLocals(IF u = 1 THEN "start" ELSE "absent")]

Next ==
    \/ \E u \in Users : UserStart(u)
    \/ \E u \in Users : UserReadContractKeys(u)
    \/ \E u \in Users : UserReadContractHash(u)
    \/ \E u \in Users : UserReadFunding(u)
    \/ \E u \in Users : UserReadRefund(u)
    \/ \E u \in Users : UserReadRefundFinal(u)
    \/ \E u \in Users : UserReadFundingFinal(u)
    \/ \E u \in Users : UserReadSecondKeys(u)
    \/ \E u \in Users : UserReadSecondTxid(u)
    \/ \E u \in Users : UserReadPreimage(u)
    \/ \E u \in Users : UserReadMakerPrvKey(u)
    \/ MakerAccept
    \/ MakerReadUserKeys
    \/ MakerReadUtxoDesc
    \/ MakerReadUtxoOutpoint
    \/ MakerReadUtxoPsbtIn
    \/ MakerReadRefundAddr
    \/ MakerReadRefund
    \/ MakerReadFunding
    \/ MakerReadSecondUserData
    \/ MakerReadHashlockPrvKey
    \/ MakerReadPrvKey
    \/ IntruderConnect
    \/ IntruderSend
    \/ \E u \in Users : CorruptMakerSend(u)

Spec == Init /\ [][Next]_vars

(***************************************************************************)
(* The maker and both users, all running this code, and nobody else.  Each *)
(* is a process of its own (a tokio runtime blocked in one read at a       *)
(* time), scheduled by the operating system: a process that can take its   *)
(* next step eventually takes it.                                          *)
(***************************************************************************)
InitHonest ==
    /\ cp = [verdict |-> "off"]
    /\ owner = <<>> /\ c2m = <<>> /\ m2c = <<>> /\ backlog = <<>>
    /\ maker = MakerLocals("accept")
    /\ user = [u \in Users |-> UserLocals("start")]

MakerStep ==
    \/ MakerAccept
    \/ MakerReadUserKeys
    \/ MakerReadUtxoDesc
    \/ MakerReadUtxoOutpoint
    \/ MakerReadUtxoPsbtIn
    \/ MakerReadRefundAddr
    \/ MakerReadRefund
    \/ MakerReadFunding
    \/ MakerReadSecondUserData
    \/ MakerReadHashlockPrvKey
    \/ MakerReadPrvKey

UserStep(u) ==
    \/ UserStart(u)
    \/ UserReadContractKeys(u)
    \/ UserReadContractHash(u)
    \/ UserReadFunding(u)
    \/ UserReadRefund(u)
    \/ UserReadRefundFinal(u)
    \/ UserReadFundingFinal(u)
    \/ UserReadSecondKeys(u)
    \/ UserReadSecondTxid(u)
    \/ UserReadPreimage(u)
    \/ UserReadMakerPrvKey(u)

NextHonest == MakerStep \/ \E u \in Users : UserStep(u)

SpecHonest ==
    /\ InitHonest /\ [][NextHonest]_vars
    /\ WF_vars(MakerStep)
    /\ \A u \in Users : WF_vars(UserStep(u))

(***************************************************************************)
(* Claims about the protocol (Spec)                                        *)
(***************************************************************************)
UserSent(u, what) ==
    \E i \in DOMAIN user[u].log :
        user[u].log[i].op = "send" /\ user[u].log[i].what = what
MakerSent(what) ==
    \E i \in DOMAIN maker.log : maker.log[i].op = "send" /\ maker.log[i].what = what
\* before position i of its log the maker sent `what` on c / read `what` from c
MakerSentBefore(i, c, what) ==
    \E j \in 1..(i - 1) :
        maker.log[j].op = "send" /\ maker.log[j].conn = c /\ maker.log[j].what = what
MakerReceivedBefore(i, c, what) ==
    \E j \in 1..(i - 1) :
        maker.log[j].op = "recv" /\ maker.log[j].conn = c /\ maker.log[j].what = what

\* the refund can be mined: it carries the signature of each of the three
\* timelock-path keys (positions 3..5 of the nine contract keys)
RefundFinalized(psbt, keys) ==
    /\ psbt.inputs # <<>>
    /\ Len(keys) = 9
    /\ \A i \in DOMAIN psbt.inputs :
           {keys[4], keys[5], keys[6]} \subseteq psbt.inputs[i].partial_sigs

\* C1 as stated: the maker sends the finalized funding transaction to a user only
\* after it has received the refund from both users, and has sent to both users
\* the refund carrying both users' signatures and its own.
C1_RefundBeforeFunding ==
    \A i \in DOMAIN maker.log :
        (maker.log[i].op = "send" /\ maker.log[i].what = "funding_final") =>
            \A k \in {1, 2} :
                /\ MakerReceivedBefore(i, maker.conn[k], "refund_signed")
                /\ \E j \in 1..(i - 1) :
                       /\ maker.log[j] = Sent(maker.conn[k], "refund_final",
                                              PsbtMsg(maker.refund_final))
                       /\ RefundFinalized(maker.refund_final, maker.keys)

\* C2 as stated: a user has signed and sent the funding transaction only if the
\* refund it got back from the maker is fully finalized (signed by all three
\* contract parties).
C2_FundingSignedAfterFinalRefund ==
    \A u \in Users :
        UserSent(u, "funding_signed") =>
            RefundFinalized(user[u].refund_final, user[u].keys)

\* the contract data user u holds, with `refund` as the refund, passes
\* check_contract_keys and check_psbts
ChecksPass(u, refund) ==
    /\ check_contract_keys(user[u].keys, pub_key(u, 1), pub_key(u, 2), pub_key(u, 3))
    /\ \E overflow_checks \in BOOLEAN :
           check_psbts(user[u].funding_psbt, refund,
                       users2maker_contract_desc(user[u].keys, user[u].hash),
                       my_utxo(u), UserRefundAddr(u), overflow_checks)

\* C3: a user sends its refund signature only in the step in which
\* check_contract_keys and check_psbts pass on the contract data it received, and
\* its funding signature only after that; if a check fails the user aborts in
\* that step without sending anything, and an aborted user never sends again.
C3_SignsOnlyChecked ==
    [][\A u \in Users :
        LET line == UserLine(u, 1)
            passes == ParsesPsbt(line, None) /\ ChecksPass(u, line.psbt)
        IN  /\ (UserSent(u, "refund_signed")' /\ ~UserSent(u, "refund_signed")) =>
                   user[u].pc = "read_refund" /\ passes
            /\ UserSent(u, "funding_signed")' => UserSent(u, "refund_signed")'
            /\ (user[u].pc = "read_refund" /\ user'[u] # user[u] /\ ~passes) =>
                   user'[u].pc = "aborted" /\ user'[u].log = user[u].log
            /\ user[u].pc = "aborted" => user'[u] = user[u]
      ]_vars

\* a user validated the contract data, signed the refund and the funding
C3_Witness == \E u \in Users : UserSent(u, "funding_signed")

\* C4: a user sends its cooperative-path private key (prv_key1) only in the step in
\* which the preimage it read on the new connection hashes to the hash it read in
\* phase 1 and the maker private key it reads belongs to the maker's multisig
\* public key it was given; on a mismatch of either it aborts in that step
\* without sending anything.
C4_KeyReleasedOnlyAfterProof ==
    [][\A u \in Users :
        LET line == UserLine(u, 2)
            proof == /\ Sha256(user[u].preimage) = user[u].hash
                     /\ PubOf(line.key) = user[u].maker_keys[1]
        IN  /\ (UserSent(u, "prv_key1")' /\ ~UserSent(u, "prv_key1")) =>
                   /\ user[u].pc = "read_maker_prv_key" /\ line.t = "prv" /\ proof
                   /\ \E i \in DOMAIN user[u].log :
                          user[u].log[i] = Received(user[u].conn[2], "preimage")
                   /\ \E i \in DOMAIN user[u].log :
                          user[u].log[i] = Received(user[u].conn[1], "hash")
            /\ (/\ user[u].pc = "read_maker_prv_key" /\ user'[u] # user[u]
                /\ line.t = "prv" /\ ~proof) =>
                   user'[u].pc = "aborted" /\ user'[u].log = user[u].log
      ]_vars

\* a user checked preimage and key and released its cooperative-path key
C4_Witness ==
    \E u \in Users :
        /\ UserSent(u, "prv_key1")
        /\ Sha256(user[u].preimage) = user[u].hash
        /\ PubOf(user[u].maker_prv_key) = user[u].maker_keys[1]

HashlockKeyBad(k) == PubOf(k) \notin {maker.user_keys[1][3], maker.user_keys[2][3]}
MakerSentSecret == MakerSent("preimage") \/ MakerSent("maker_prv_key")
\* the maker's step reads a private key at the hashlock step
ReadsHashlockKey ==
    /\ maker.pc = "read_hashlock_prv_key"
    /\ maker' # maker
    /\ MakerLine(MakerReading).t = "prv"
SecretOnlyAfterGoodKeys ==
    MakerSentSecret =>
        /\ Len(maker.hashlock_prv_keys) = 2
        /\ \A i \in 1..2 : ~HashlockKeyBad(maker.hashlock_prv_keys[i])

\* C5 as stated: when a private key read at the hashlock step matches none of the
\* two expected hashlock public keys, the maker aborts in that step, and has
\* sent neither the preimage nor a phase-2 private key.
C5_Original ==
    [][(ReadsHashlockKey /\ HashlockKeyBad(MakerLine(MakerReading).key)) =>
           maker'.pc = "aborted" /\ ~MakerSentSecret'
      ]_vars

\* C5 amended: the maker sends the preimage or a phase-2 private key only if both
\* keys read at the hashlock step match an expected hashlock public key.  The
\* check runs when the second key has been read: the maker then aborts without
\* sending if either key matches none; after the first key, matching or not,
\* it goes on to read the second.  An aborted maker does nothing more.
C5_AbortAtHashlockCheck ==
    [][/\ (/\ ReadsHashlockKey /\ maker.idx = 2
           /\ \/ HashlockKeyBad(MakerLine(MakerReading).key)
              \/ HashlockKeyBad(maker.hashlock_prv_keys[1])) =>
              maker'.pc = "aborted" /\ maker'.log = maker.log
       /\ (ReadsHashlockKey /\ maker.idx = 1) =>
              maker'.pc = "read_hashlock_prv_key" /\ ~MakerSentSecret'
       /\ SecretOnlyAfterGoodKeys'
       /\ maker.pc = "aborted" => maker' = maker
      ]_vars

\* the first user's key matched no hashlock key, the second key was read, and the
\* maker aborted at the check with nothing revealed
C5_Witness ==
    /\ maker.pc = "aborted"
    /\ Len(maker.hashlock_prv_keys) = 2
    /\ HashlockKeyBad(maker.hashlock_prv_keys[1])
    /\ ~MakerSentSecret

\* C6: the maker has one secret: every hash it sends is the hash of that secret
\* and every preimage it sends is that secret.  When it sends the preimage it has
\* sent the hash to both users, signed both maker-to-user funding transactions
\* completely, sent the txid of each to its new connection, and read from both
\* first connections a private key, both of which passed the hashlock check.
C6_SecretRevealOrder ==
    /\ maker.preimage \in {0, MakerPreimage}
    /\ \A i \in DOMAIN maker.log :
           /\ (maker.log[i].op = "send" /\ maker.log[i].what = "hash") =>
                  maker.log[i].m.hash = Sha256(MakerPreimage)
           /\ (maker.log[i].op = "send" /\ maker.log[i].what = "preimage") =>
                  /\ maker.log[i].m.preimage = MakerPreimage
                  /\ Len(maker.maker2users_txs) = 2
                  /\ \A k \in 1..2 :
                         /\ MakerSentBefore(i, maker.conn[k], "hash")
                         /\ finalized(60 + k, maker.maker2users_txs[k])
                         /\ LET txid == Txid(maker.maker2users_txs[k].unsigned_tx)
                            IN  \E j \in 1..(i - 1) :
                                    /\ maker.log[j].op = "send"
                                    /\ maker.log[j].conn = maker.conn[2 + k]
                                    /\ maker.log[j].what = "txid"
                                    /\ maker.log[j].m.txid = txid
                         /\ MakerReceivedBefore(i, maker.conn[k], "prv_key3")
                  /\ SecretOnlyAfterGoodKeys

\* the maker revealed the preimage
C6_Witness == MakerSent("preimage") /\ maker.preimage = MakerPreimage

\* the number of spending-path positions of desc that hold key
Occurrences(desc, key) == Count(DescKeys(desc), LAMBDA k : k = key)

\* C11 as stated: in every contract descriptor the maker has built and every one a
\* user has derived, whatever keys the peers submitted, the embedded public keys
\* are pairwise distinct, and each key a user generated for the contract occurs
\* at exactly one position of the descriptor that user derived.
C11_DescriptorKeysDistinct ==
    /\ \A d \in MakerUsers2MakerDescs \cup MakerMaker2UserDescs : sanity_check(d)
    /\ \A u \in Users :
           /\ \A d \in UserUsers2MakerDescs(u) :
                  /\ sanity_check(d)
                  /\ \A i \in 1..3 : Occurrences(d, pub_key(u, i)) = 1
           /\ \A d \in UserMaker2UserDescs(u) :
                  /\ sanity_check(d)
                  /\ \A i \in 4..5 : Occurrences(d, pub_key(u, i)) = 1

\* C12: when the maker has completed, the profit it computed is the value of the
\* contract output of the phase-1 funding transaction (the one it built and the
\* users signed) minus, for each of the two maker-to-user funding transactions,
\* 45000 plus the fee of that transaction.  The subtraction is the code's, on
\* the two's complement reading of unsigned 64-bit values.
C12_ProfitAccounting ==
    maker.pc = "done" =>
        /\ maker.funding_final.unsigned_tx = maker.funding_psbt.unsigned_tx
        /\ Len(maker.maker2users_txs) = 2
        /\ maker.profit =
               maker.funding_psbt.unsigned_tx.output[1].value
               - SumSeq([k \in 1..2 |->
                            SECOND_AMOUNT + fee_amount(maker.maker2users_txs[k])])

\* the maker and both users completed and the maker earned something
C12_Witness ==
    /\ maker.pc = "done" /\ maker.profit > 0
    /\ \A u \in Users : user[u].pc = "done"

\* C13 as stated: once a participant running this code (the maker or a user) has
\* aborted, no participant is in or ever reaches its completed state.
C13_AbortTerminatesAll ==
    (maker.pc = "aborted" \/ \E u \in Users : user[u].pc = "aborted") =>
        (maker.pc # "done" /\ \A u \in Users : user[u].pc # "done")

(***************************************************************************)
(* Claims about the run of the maker with two users of this code           *)
(* (SpecHonest)                                                            *)
(***************************************************************************)
\* what the log of a process says it sent on c / read from c, in order
SentOn(log, c) == SelectSeq(log, LAMBDA e : e.op = "send" /\ e.conn = c)
ReadFrom(log, c) == SelectSeq(log, LAMBDA e : e.op = "recv" /\ e.conn = c)
\* every line the reader took off c is the line the sender wrote for that
\* position of the protocol
InPosition(sender, reader, c) ==
    /\ Len(ReadFrom(reader, c)) <= Len(SentOn(sender, c))
    /\ \A i \in DOMAIN ReadFrom(reader, c) :
           ReadFrom(reader, c)[i].what = SentOn(sender, c)[i].what
AllDone == maker.pc = "done" /\ \A u \in Users : user[u].pc = "done"

\* C14: with the maker and two users running this code and each process taking
\* its next step whenever it can, in whatever order the users' steps interleave,
\* every line is read at the position of the protocol it was written for, on
\* the connection it was written to, and the run reaches the state where the
\* maker and both users have completed (so it never stops before that).
C14_HonestRunCompletes ==
    /\ [](\A c \in DOMAIN owner :
             /\ InPosition(user[owner[c]].log, maker.log, c)
             /\ InPosition(maker.log, user[owner[c]].log, c))
    /\ <>AllDone

\* the maker and both users completed, the second user being first to reconnect
C14_Witness == AllDone /\ owner = <<1, 2, 2, 1>>

\* the public keys a line carries, a private key counted as its public key
Carried(m) ==
    CASE m.t = "keys" -> {m.keys[i] : i \in DOMAIN m.keys}
      [] m.t = "prv" -> {PubOf(m.key)}
      [] OTHER -> {}
Sends(log) == {log[i] : i \in {j \in DOMAIN log : log[j].op = "send"}}
Phase1Keys(u) == {pub_key(u, i) : i \in 1..3}
Phase2Keys(u) == {pub_key(u, i) : i \in 4..5}
MakerPhase1Keys == {pub_key_m(i) : i \in 1..3}
MakerPhase2Keys == {pub_key_m(i) : i \in 4..7}
Phase2Connection(c) == Len(maker.conn) = 4 /\ c \in {maker.conn[3], maker.conn[4]}

\* C15: a user sends the private keys of its users-to-maker keys, and every
\* line carrying one of its first three keys, only on its first connection, and
\* its two new keys only on its second connection; the maker sends the
\* preimage, the keys and private keys of the maker-to-user contracts and
\* their txids only on the third and fourth connections, and none of its first
\* three keys there.
C15_IdentitiesOnSeparateConnections ==
    /\ \A u \in Users : \A e \in Sends(user[u].log) :
           /\ e.conn \in {user[u].conn[1], user[u].conn[2]}
           /\ e.what \in {"prv_key1", "prv_key3"} => e.conn = user[u].conn[1]
           /\ e.conn = user[u].conn[1] => Carried(e.m) \cap Phase2Keys(u) = {}
           /\ e.conn = user[u].conn[2] =>
                  e.what = "second_user_keys" /\ Carried(e.m) \cap Phase1Keys(u) = {}
    /\ \A e \in Sends(maker.log) :
           /\ e.what \in {"preimage", "maker_prv_key", "maker_keys", "txid"} =>
                  Phase2Connection(e.conn)
           /\ Phase2Connection(e.conn) => Carried(e.m) \cap MakerPhase1Keys = {}
           /\ ~Phase2Connection(e.conn) => Carried(e.m) \cap MakerPhase2Keys = {}

\* a user handed over its cooperative-path key after the maker released the
\* preimage and a private key of a maker-to-user contract
C15_Witness ==
    /\ MakerSent("maker_prv_key")
    /\ \E u \in Users : UserSent(u, "prv_key1") /\ user[u].conn[2] # user[u].conn[1]

\* the line is a PSBT of the transaction of `agreed`
SameTxid(line, agreed) ==
    line.t = "psbt" /\ Txid(line.psbt.unsigned_tx) = Txid(agreed.unsigned_tx)
\* the maker's step at `pc` takes a line for `agreed`, or it aborts
MakerReadBound(pc, agreed) ==
    (maker.pc = pc /\ maker' # maker) =>
        /\ ~SameTxid(MakerLine(MakerReading), agreed) => maker'.pc = "aborted"
        /\ maker'.signed_psbts # <<>> =>
               SameTxid(PsbtMsg(maker'.signed_psbts[1]), agreed)
\* the user's step at `pc` takes a line for `agreed`, or it aborts
UserReadBound(u, pc, agreed) ==
    (user[u].pc = pc /\ user'[u] # user[u] /\ ~SameTxid(UserLine(u, 1), agreed)) =>
        user'[u].pc = "aborted"

\* C16: the maker's step reading a signed refund (funding) takes only a PSBT
\* whose txid is that of the refund (funding) it built, and what it combines
\* into the final refund (funding) has that txid; a user's step reading the
\* final refund (funding) takes only a PSBT whose txid is that of the refund
\* (funding) it validated; on any other line the reader aborts.
C16_TxidBinding ==
    [][ /\ MakerReadBound("read_refund_psbt", maker.refund_psbt)
        /\ MakerReadBound("read_funding_psbt", maker.funding_psbt)
        /\ maker'.refund_final # maker.refund_final =>
               SameTxid(PsbtMsg(maker'.refund_final), maker.refund_psbt)
        /\ maker'.funding_final # maker.funding_final =>
               SameTxid(PsbtMsg(maker'.funding_final), maker.funding_psbt)
        /\ \A u \in Users :
               /\ UserReadBound(u, "read_refund_final", user[u].refund_psbt)
               /\ UserReadBound(u, "read_funding_final", user[u].funding_psbt)
               /\ user'[u].refund_final # user[u].refund_final =>
                      SameTxid(PsbtMsg(user'[u].refund_final), user[u].refund_psbt)
               /\ user'[u].funding_final # user[u].funding_final =>
                      SameTxid(PsbtMsg(user'[u].funding_final), user[u].funding_psbt)
      ]_vars

\* the maker combined both rounds and a user took both final transactions
C16_Witness ==
    /\ maker.refund_final # NoPsbt /\ maker.funding_final # NoPsbt
    /\ \E u \in Users : user[u].refund_final # NoPsbt /\ user[u].funding_final # NoPsbt

\* every `final` the maker wrote comes after a `signed` read from A and from B
SentAfterBothRead(final, signed) ==
    \A i \in DOMAIN maker.log :
        (maker.log[i].op = "send" /\ maker.log[i].what = final) =>
            \A k \in {1, 2} : MakerReceivedBefore(i, maker.conn[k], signed)
\* the maker's step that produces a combined transaction is its read of the
\* second copy, and the result carries the signatures of both copies
CombinesBoth(pc, before, after) ==
    (maker.pc = pc /\ after # before) =>
        /\ maker.idx = 2 /\ Len(maker.signed_psbts) = 1
        /\ AllSigs(maker.signed_psbts[1]) \cup AllSigs(MakerLine(MakerReading).psbt)
               \subseteq AllSigs(after)
BothHonest ==
    /\ Len(maker.conn) >= 2
    /\ \A k \in {1, 2} : owner[maker.conn[k]] \in Users

TimesIn(keys, range, key) == Cardinality({i \in range : keys[i] = key})
PastContractData(u) ==
    user[u].pc \notin {"absent", "start", "read_contract_keys", "read_contract_hash",
                       "read_funding", "read_refund", "aborted"}

\* C18: a user that went on after the contract data (it signed the refund)
\* holds nine received keys that are pairwise distinct, with its first key
\* exactly once among the first three, its second exactly once among the next
\* three and its third exactly once among the last three, whoever sent them.
C18_ProceedsOnlyOnCheckedKeys ==
    \A u \in Users :
        (PastContractData(u) \/ UserSent(u, "refund_signed")) =>
            /\ Len(user[u].keys) = 9
            /\ \A i, j \in 1..9 : i # j => user[u].keys[i] # user[u].keys[j]
            /\ TimesIn(user[u].keys, 1..3, pub_key(u, 1)) = 1
            /\ TimesIn(user[u].keys, 4..6, pub_key(u, 2)) = 1
            /\ TimesIn(user[u].keys, 7..9, pub_key(u, 3)) = 1

\* a user signed the refund on keys that a corrupt maker sent
C18_Witness ==
    maker.pc = "corrupt" /\ \E u \in Users : UserSent(u, "refund_signed")

\* the keys of path p (1 cooperative, 2 timelock, 3 hashlock) in `keys`
Triplet(keys, p) == SubSeq(keys, 3 * p - 2, 3 * p)
\* user u holds contract keys that the maker of the code sent
HoldsMakerKeys(u) ==
    /\ maker.keys # <<>>
    /\ user[u].keys # <<>>

\* C20: the nine keys the maker lays out are, for the cooperative, the
\* timelock and the hashlock path in that order, the key A submitted for the
\* path, the key B submitted for it and the maker's own; its descriptor puts
\* the three triplets on these paths with the 48-block timelock; a user that
\* received the keys passes its own-key check on them and, once it has the
\* hash, derives the maker's descriptor.
C20_KeyLayout ==
    /\ maker.keys # <<>> =>
           /\ \A p \in 1..3 :
                  Triplet(maker.keys, p)
                      = <<maker.user_keys[1][p], maker.user_keys[2][p], pub_key_m(p)>>
           /\ \A d \in MakerUsers2MakerDescs :
                  /\ d.multi = Triplet(maker.keys, 1)
                  /\ d.timelock = Triplet(maker.keys, 2) /\ d.older = 48
                  /\ d.hashlock = Triplet(maker.keys, 3) /\ d.hash = maker.hash
    /\ \A u \in Users :
           HoldsMakerKeys(u) =>
               /\ user[u].keys = maker.keys
               /\ \A p \in 1..3 : TimesIn(user[u].keys, (3 * p - 2)..(3 * p), pub_key(u, p)) = 1
               /\ \A i, j \in 1..9 : i # j => user[u].keys[i] # user[u].keys[j]
               /\ user[u].hash # 0 =>
                      users2maker_contract_desc(user[u].keys, user[u].hash)
                          \in MakerUsers2MakerDescs

\* a user derived the descriptor from keys and hash that the maker sent and
\* went on to sign the refund
C20_Witness ==
    \E u \in Users :
        /\ HoldsMakerKeys(u) /\ user[u].hash # 0
        /\ UserUsers2MakerDescs(u) # {}

\* the descriptor the maker built for its k-th new connection
MakerSecondDesc(k) ==
    maker2users_contract_desc(<<maker.second_keys[k][1], pub_key_m(2 * k + 2)>>,
                              pub_key_m(2 * k + 3), maker.second_keys[k][2], maker.hash)
\* user u derived its maker-to-user descriptor on the maker's k-th new connection
DerivedOn(u, k) ==
    /\ maker.maker2users_txs # <<>>
    /\ Len(maker.conn) = 4 /\ user[u].conn[2] = maker.conn[2 + k]
    /\ user[u].txid # <<>>

\* C21: the maker-to-user descriptor a user derives on a new connection is the
\* one the maker built for that connection: the user's fourth key and the
\* maker's first key of the pair in the 2-of-2 path, the maker's second key
\* under the 69-block timelock, the user's fifth key under the hashlock, and
\* the hash of the users-to-maker contract; the transaction whose txid the
\* user got pays the contract amount to its script.
C21_SecondDescriptorAgrees ==
    \A u \in Users : \A k \in 1..2 :
        DerivedOn(u, k) =>
            /\ UserMaker2UserDescs(u) = {MakerSecondDesc(k)}
            /\ MakerSecondDesc(k).multi = <<pub_key(u, 4), pub_key_m(2 * k + 2)>>
            /\ MakerSecondDesc(k).timelock = <<pub_key_m(2 * k + 3)>>
            /\ MakerSecondDesc(k).older = 69
            /\ MakerSecondDesc(k).hashlock = <<pub_key(u, 5)>>
            /\ MakerSecondDesc(k).hash = user[u].hash
            /\ \A d \in MakerUsers2MakerDescs \cup UserUsers2MakerDescs(u) :
                   d.hash = MakerSecondDesc(k).hash
            /\ user[u].txid = Txid(maker.maker2users_txs[k].unsigned_tx)
            /\ \E i \in DOMAIN maker.maker2users_txs[k].unsigned_tx.output :
                   maker.maker2users_txs[k].unsigned_tx.output[i]
                       = TxOut(ScriptPubkey(MakerSecondDesc(k)), SECOND_AMOUNT)

\* both users derived their descriptor, the second user on the first new connection
C21_Witness ==
    /\ DerivedOn(2, 1) /\ DerivedOn(1, 2)
    /\ UserUsers2MakerDescs(1) # {}

\* the private keys and preimages among the lines of a log
PrvKeysSent(log) == {e.m.key : e \in {x \in Sends(log) : x.m.t = "prv"}}
PreimagesSent(log) == {e.m.preimage : e \in {x \in Sends(log) : x.m.t = "preimage"}}

\* C22: of its secrets the maker has sent at most the preimage and the private
\* keys of the 2-of-2 paths of the two maker-to-user contracts (its keys 4 and
\* 6), never the private key of one of its three users-to-maker keys or of a
\* maker-to-user timelock key (5 and 7); a user has sent at most the private
\* keys of its hashlock-path key (3) and its cooperative-path key (1), never
\* that of its timelock key (2) or of its two new keys (4 and 5), and no
\* preimage.
C22_OnlyDesignatedSecretsSent ==
    /\ PrvKeysSent(maker.log) \subseteq {MakerPrv(4), MakerPrv(6)}
    /\ PreimagesSent(maker.log) \subseteq {MakerPreimage}
    /\ \A u \in Users :
           /\ PrvKeysSent(user[u].log) \subseteq {UserPrv(u, 3), UserPrv(u, 1)}
           /\ PreimagesSent(user[u].log) = {}

\* every designated secret was sent
C22_Witness ==
    /\ PrvKeysSent(maker.log) = {MakerPrv(4), MakerPrv(6)}
    /\ PreimagesSent(maker.log) = {MakerPreimage}
    /\ \A u \in Users : PrvKeysSent(user[u].log) = {UserPrv(u, 3), UserPrv(u, 1)}

\* the maker is at a read on a connection that is open and holds no line, the
\* peer behind it not being one of the two users
WaitsForSilentPeer ==
    /\ MakerReads
    /\ owner[MakerReading] \notin Users
    /\ c2m[MakerReading] = <<>>

UserReceivedBefore(u, i, k, what) ==
    \E j \in 1..(i - 1) : user[u].log[j] = Received(user[u].conn[k], what)

\* C24: when a user has sent the private key of its hashlock-path key, it has
\* read before that the final funding transaction on its first connection, with
\* the txid of the funding transaction it validated, and on its second
\* connection the maker's two keys, which differ, and a txid.
C24_HashlockKeyAfterSecondContract ==
    \A u \in Users : \A i \in DOMAIN user[u].log :
        (user[u].log[i].op = "send" /\ user[u].log[i].what = "prv_key3") =>
            /\ UserReceivedBefore(u, i, 1, "funding_final")
            /\ Txid(user[u].funding_final.unsigned_tx)
                   = Txid(user[u].funding_psbt.unsigned_tx)
            /\ UserReceivedBefore(u, i, 2, "maker_keys")
            /\ Len(user[u].maker_keys) = 2
            /\ user[u].maker_keys[1] # user[u].maker_keys[2]
            /\ UserReceivedBefore(u, i, 2, "txid")
            /\ user[u].txid # <<>>

\* a user released its hashlock-path key to a corrupt maker
C24_Witness ==
    maker.pc = "corrupt" /\ \E u \in Users : UserSent(u, "prv_key3")

\* the private keys of prv_keys are distinct and their public keys are exactly
\* those of match_against
DistinctAndCover(prv_keys, match_against) ==
    /\ Len(prv_keys) = 2
    /\ prv_keys[1] # prv_keys[2]
    /\ {PubOf(prv_keys[i]) : i \in DOMAIN prv_keys}
           = {match_against[i] : i \in DOMAIN match_against}

\* C25: once the maker has revealed the preimage, the two hashlock private keys
\* it accepted are distinct and are those of both users' hashlock public keys;
\* once it has completed, the same holds of the two cooperative-path private
\* keys and the users' first keys.
C25_AcceptedKeysDistinctAndCover ==
    /\ PreimagesSent(maker.log) # {} =>
           DistinctAndCover(maker.hashlock_prv_keys,
                            <<maker.user_keys[1][3], maker.user_keys[2][3]>>)
    /\ maker.pc = "done" =>
           DistinctAndCover(maker.prv_keys,
                            <<maker.user_keys[1][1], maker.user_keys[2][1]>>)

\* C27 as stated: once the maker has built its two maker-to-user transactions,
\* what it spent on them (two outputs of 45000 and the fees) is at most the value
\* of the contract output of the funding transaction, and a maker that completes
\* has a profit that did not wrap around.
C27_SpentWithinCollateral ==
    /\ maker.maker2users_txs # <<>> =>
           ~ULt(maker.funding_final.unsigned_tx.output[1].value, maker.total_spent)
    /\ maker.pc = "done" => maker.profit >= 0

\* C28 as stated: the two connections the maker accepted for the second phase,
\* to which it sends the second contract data and later the preimage and a
\* private key, were opened by the two peers of the first phase, one each.
C28_SecondConnectionsByFirstUsers ==
    maker.maker2users_txs # <<>> =>
        \/ /\ owner[maker.conn[3]] = owner[maker.conn[1]]
           /\ owner[maker.conn[4]] = owner[maker.conn[2]]
        \/ /\ owner[maker.conn[3]] = owner[maker.conn[2]]
           /\ owner[maker.conn[4]] = owner[maker.conn[1]]

(***************************************************************************)
(* Claims about the validation of funding/refund pairs (SpecPsbt)          *)
(***************************************************************************)
Accepted == cp.verdict = "accepted"
Rejected == cp.verdict = "rejected"
FundingFee == fee_amount(cp.funding)

\* every check of check_psbts but the fee ceiling (check 2) passes on the pair
OtherChecksPass ==
    /\ FeeAmountOk(cp.funding)
    /\ Check1(cp.funding, PsbtDesc)
    /\ Check3(cp.funding, UserUtxo(1, cp.va))
    /\ Check4(cp.funding, cp.overflow_checks)
    /\ Check5(cp.funding, cp.refund)
    /\ Check6(cp.refund)
    /\ Check7(cp.refund, UserRefundAddr(1))
    /\ Check8(cp.funding, cp.refund, UserUtxo(1, cp.va), UserRefundAddr(1),
              cp.overflow_checks)

\* C7 as stated: with all other checks passing, a funding fee of exactly 420 is
\* accepted and a fee of 421 is rejected.
C7_Original ==
    (cp.verdict # "none" /\ OtherChecksPass) =>
        /\ (FundingFee = FEE_CEILING => Accepted)
        /\ (FundingFee = FEE_CEILING + 1 => Rejected)

\* C7 amended: with all other checks passing, a funding fee of 419 (one below the
\* ceiling) is accepted, and a fee of 420 or more is rejected.
C7_FeeCeilingExclusive ==
    (cp.verdict # "none" /\ OtherChecksPass) =>
        /\ (FundingFee = FEE_CEILING - 1 => Accepted)
        /\ (~ULt(FundingFee, FEE_CEILING) => Rejected)

\* a pair with fee 419 that passes every other check has been validated
C7_Witness ==
    /\ cp.verdict = "accepted"
    /\ FundingFee = FEE_CEILING - 1

\* C8 as stated: an accepted pair pays the caller's address
\* initial_collateral_value - (funding_fee + 1000) / participant_count, where
\* participant_count is the number of collateral inputs of the funding transaction.
C8_RefundShareByParticipants ==
    Accepted =>
        my_txout(cp.refund, UserRefundAddr(1))[1].value =
            cp.va - (FundingFee + 1000) \div Len(cp.funding.unsigned_tx.input)

\* C9: the refund the maker builds for two users pays each user's refund address
\* V - (funding_fee + 1000) / 2, the value check 8 of that user expects.
C9_BuiltRefundMatchesCheck8 ==
    (cp.built /\ cp.tampers = 0) =>
        \A u \in {1, 2} :
            LET v == IF u = 1 THEN cp.va ELSE cp.vb
            IN  /\ Check7(cp.refund, UserRefundAddr(u))
                /\ my_txout(cp.refund, UserRefundAddr(u))[1].value
                       = v - (FundingFee + 1000) \div 2
                /\ Check8(cp.funding, cp.refund, UserUtxo(u, v), UserRefundAddr(u),
                          cp.overflow_checks)

\* the maker built a pair for a non-zero fee and the user accepted it
C9_Witness ==
    /\ cp.built /\ cp.tampers = 0 /\ Accepted
    /\ FundingFee = FEE_CEILING - 2
    /\ cp.va = cp.vb

\* C10 as stated: for every accepted pair the funding input values sum to fee plus
\* contract output value, and the contract output value is 1000 plus the sum of
\* all refund output values.
C10_ValueBalance ==
    Accepted =>
        /\ SumSeq(input_values(cp.funding))
               = FundingFee + cp.funding.unsigned_tx.output[1].value
        /\ cp.funding.unsigned_tx.output[1].value = 1000 + OutputAmount(cp.refund)

\* C19: a refund that passes the user's validation, which is the refund the
\* user then signs, has exactly one input, that input spends output 0 of the
\* funding transaction validated with it, its sequence is 48 and the version
\* of the transaction is 2; a refund that differs in one of these is rejected.
C19_SignedRefundShape ==
    Accepted =>
        /\ Len(cp.refund.unsigned_tx.input) = 1
        /\ Len(cp.refund.inputs) = 1
        /\ cp.refund.unsigned_tx.input[1].previous_output.txid = Txid(cp.funding.unsigned_tx)
        /\ cp.refund.unsigned_tx.input[1].previous_output.vout = 0
        /\ cp.refund.unsigned_tx.input[1].sequence = 48
        /\ cp.refund.unsigned_tx.version = 2

\* a pair changed in some place, its refund still of that shape, is accepted
C19_Witness == Accepted /\ cp.tampers > 0 /\ cp.refund.unsigned_tx.version = 2

\* C26 as stated: for two users and every funding fee from 0 to the ceiling, the
\* refund is built, and its outputs and the refund fee of 1000 add up to exactly
\* the value of the contract output of the funding transaction.
C26_RefundSumsToContractOutput ==
    (cp.tampers = 0 /\ FundingFee <= FEE_CEILING) =>
        /\ cp.built
        /\ OutputAmount(cp.refund) + refund_fee = cp.funding.unsigned_tx.output[1].value

\* C29 as stated: a funding transaction accepted by check_psbts pays the script
\* of the contract descriptor in output 0 and holds no value in any other
\* output.
C29_AllValueInContractOutput ==
    Accepted =>
        /\ cp.funding.unsigned_tx.output[1].script_pubkey = ScriptPubkey(PsbtDesc)
        /\ \A i \in DOMAIN cp.funding.unsigned_tx.output :
               i > 1 => cp.funding.unsigned_tx.output[i].value = 0

====
